---- MODULE Spec2Model ----
(***************************************************************************)
(* Model of the progress-reporting core of frostyard/pm: the              *)
(* ProgressHelper of package progress (and its older copy in               *)
(* internal/types), the reporter precedence of NewProgressHelper and the   *)
(* mutex wrapper MakeThreadSafe.                                           *)
(*                                                                         *)
(* Identifiers are modelled as naturals: 0 is the empty string "" and n>0  *)
(* is the n-th string handed out by uuid.New().String().  Timestamps are   *)
(* naturals, 0 is the zero time.Time.                                      *)
(***************************************************************************)
EXTENDS Naturals, Sequences, FiniteSets, TLC

\* ---------------------------------------------------------------- bounds
MaxHelpers == 2      \* helpers constructed in one run of SpecIDs
MaxLog == 4          \* events delivered to reporters in one run of Spec
MaxTime == 2         \* largest reading of the clock
MaxNestLog == 6      \* events delivered in one run of SpecNested
MaxIDLog == 2        \* events delivered in one run of SpecIDs
MaxCallers == 2      \* goroutines calling the wrapped reporter directly (SpecTS)
MaxCallsEach == 2    \* calls each of them makes, one after the other (SpecTSFair)
NumGoroutines == 2   \* goroutines with a helper each (SpecConc)
MsgsPerGoroutine == 1  \* Info calls of each goroutine (SpecConc)
MaxWrap == 1         \* layers of fmt.Errorf("%w") around a classified error (SpecPM)
MaxCaps == 2         \* entries of a capability list given to Supports (SpecPM)
MaxLines == 2        \* lines of output of a command (SpecPM)
MaxCallIDs == 3      \* identifiers the calls on a backend may draw (SpecPM)

\* ------------------------------------------------------------- constants
maxLen == 500        \* const maxLen = 500 (sanitize)
Nil == "nil"                     \* a nil ProgressReporter
NoID == 0                        \* the empty string used as "no identifier"
ZeroTime == 0                    \* the zero time.Time
ImplProgress == "progress"       \* package progress (public helper)
ImplTypes == "types"             \* package internal/types (progress_helpers.go)
DefaultReporters == {Nil, "R1"}  \* candidates for the defaultReporter argument
OverrideReporters == {Nil, "R2"} \* candidates for the overrideReporter argument
Names == {"Install"}
Texts == {"msg"}
CallArgs == {"a", "b"}                 \* arguments of direct calls on the wrapper

SeverityInfo == "Informational"
SeverityWarning == "Warning"
SeverityError == "Error"

Levels == {"action", "task", "step"}

VARIABLES
  cfg,        \* the run: which copy of the helper it exercises, how many deliveries
              \* it makes at most, how far its clock advances, and whether its calls
              \* are kept properly nested
  helpers,    \* helper id -> ProgressHelper struct (plus its constructor arguments)
  events,     \* every call made on a reporter, in delivery order
  now,        \* last reading of time.Now()
  nextID,     \* number of the next identifier uuid.New() hands out
  ret,        \* the last call made on a helper and what it returned
  hist,       \* per helper: history of the calls made on it (observer state)
  born,       \* per Begin* that returned an identifier: the identifier, its level and
              \* the parent current at the call (observer state)
  panicked,   \* TRUE once a method was called on a nil reporter
  mu,         \* threadSafeProgressReporter.mu: the goroutine holding it, or Free
  inner,      \* the reporter wrapped by MakeThreadSafe: its counters, the goroutines
              \* inside its methods, the calls it has received from each goroutine
  threads,    \* per goroutine: where it is in a call on the wrapper, the call, the
              \* calls it has made and how many of them have returned
  backend,    \* the backend instance under test: its kind, runner and default reporter
  last        \* the last call made on the public or backend API: its arguments, what
              \* the command or probe it ran answered, what it returned and which
              \* events it delivered to which reporter

vars == <<cfg, helpers, events, now, nextID, ret, hist, born, panicked, mu, inner, threads,
          backend, last>>

\* ---------------------------------------------------------------- types.go
ZeroAction == [ID |-> NoID, Name |-> "", StartedAt |-> ZeroTime, EndedAt |-> ZeroTime]
ZeroTask == [ID |-> NoID, ActionID |-> NoID, Name |-> "", StartedAt |-> ZeroTime, EndedAt |-> ZeroTime]
ZeroStep == [ID |-> NoID, TaskID |-> NoID, Name |-> "", StartedAt |-> ZeroTime, EndedAt |-> ZeroTime]

\* a Go pointer: nil, or the address of a value
NilPtr(zero) == [isNil |-> TRUE, val |-> zero]
Ptr(v) == [isNil |-> FALSE, val |-> v]

\* uuid.New().String(): the n-th identifier of the process
NewUUID(n) == n

\* time.Now(): the clock never runs backwards
NowChoices == {now} \cup (IF now < cfg.maxTime THEN {now + 1} ELSE {})


\* -------------------------------------------------- observer (call history)
Depth(L) == CASE L = "action" -> 1 [] L = "task" -> 2 [] L = "step" -> 3
NoneOpen == [L \in Levels |-> NoID]
FreshHist ==
  [nested |-> TRUE,
   open |-> NoneOpen, pend |-> NoneOpen, pendClean |-> NoneOpen,
   paired |-> {}, pairedClean |-> {}]

\* Begin at level L returned id
ObsBegin(hh, L, id) ==
  [hh EXCEPT !.nested = hh.nested /\ \A K \in Levels : Depth(K) >= Depth(L) => hh.open[K] = NoID,
             !.open = [hh.open EXCEPT ![L] = id],
             !.pend = [hh.pend EXCEPT ![L] = id],
             !.pendClean = [hh.pendClean EXCEPT ![L] = id]]

\* End at level L was called; eff: it delivered an end event
ObsEnd(hh, L, eff) ==
  [hh EXCEPT !.nested = /\ hh.nested
                        /\ eff => hh.open[L] # NoID
                        /\ \A K \in Levels : Depth(K) > Depth(L) => hh.open[K] = NoID,
             !.open = [hh.open EXCEPT ![L] = NoID],
             !.pend = [hh.pend EXCEPT ![L] = NoID],
             !.paired = IF hh.pend[L] # NoID THEN hh.paired \cup {hh.pend[L]} ELSE hh.paired,
             !.pendClean = [K \in Levels |->
                              IF K = L \/ (eff /\ Depth(K) > Depth(L)) THEN NoID ELSE hh.pendClean[K]],
             !.pairedClean = IF hh.pendClean[L] # NoID
                             THEN hh.pairedClean \cup {hh.pendClean[L]} ELSE hh.pairedClean]

\* ---------------------------------------------------------------- backends
NoBackend == [kind |-> "none", runner |-> Nil, progress |-> Nil]
NoCallYet == [op |-> "none"]
\* No method of a backend assigns a field of it, so a call leaves nothing behind
\* for the next one: the model follows every constructed backend, and every
\* caller of the pure functions, for one call.
Uncalled == last.op \in {"none", "New"}

OperationUpdateMetadata == "UpdateMetadata"
OperationUpgradePackages == "UpgradePackages"
OperationInstall == "Install"
OperationUninstall == "Uninstall"
OperationSearch == "Search"
OperationListInstalled == "ListInstalled"

\* ------------------------------------------------------------------ errors
\* An error value is the chain errors.Unwrap walks: its first element is the
\* error itself, the rest is what Unwrap() returns, and nil is the empty chain.
\* A link has a dynamic type, the package that declares it, and its fields.
Pm == "pm"            \* package pm (errors.go)
Types == "types"      \* package internal/types

Link(type, pkg, id, op, b) ==
  [type |-> type, pkg |-> pkg, id |-> id, Operation |-> op, Backend |-> b,
   Reason |-> "", Stdout |-> <<>>, Stderr |-> <<>>, Payload |-> "nil"]

NilErr == <<>>
\* errors.New(text): a value equal only to itself
ErrorsNew(pkg, id) == <<Link("errorString", pkg, id, "", "")>>
ErrNotSupported(pkg) == ErrorsNew(pkg, "ErrNotSupported")
ErrNotAvailable(pkg) == ErrorsNew(pkg, "ErrNotAvailable")
Generic == ErrorsNew("errors", "something else")
\* &NotSupportedError{Operation, Backend}: Unwrap() returns ErrNotSupported
NotSupportedError(pkg, op, b) ==
  <<Link("NotSupportedError", pkg, "", op, b)>> \o ErrNotSupported(pkg)
\* &NotAvailableError{Backend}: Unwrap() returns ErrNotAvailable
NotAvailableError(pkg, b) ==
  <<Link("NotAvailableError", pkg, "", "", b)>> \o ErrNotAvailable(pkg)
\* an ExternalFailureError that forgets the error it was made for
ExternalFailureErrorWithoutErr(pkg, op, b, err) ==
  <<Link("ExternalFailureError", pkg, "", op, b)>>
\* &ExternalFailureError{Operation, Backend, Err}: Unwrap() returns e.Err
ExternalFailureError(pkg, op, b, err) ==
  <<Link("ExternalFailureError", pkg, "", op, b)>> \o err
\* the same error with Reason: reason
Because(err, reason) == <<[Head(err) EXCEPT !.Reason = reason]>> \o Tail(err)
\* the same error with Stdout, Stderr and Payload set
Holding(err, stdout, stderr, payload) ==
  <<[Head(err) EXCEPT !.Stdout = stdout, !.Stderr = stderr, !.Payload = payload]>>
    \o Tail(err)
\* fmt.Errorf("...: %w", err): a layer an intermediate caller adds
Wrapf(err) == <<Link("wrapError", "fmt", "", "", "")>> \o err

\* a comparison that looks at the error itself only (err == target)
IsTopOnly(err, target) == err # NilErr /\ <<Head(err)>> = target

\* errors.Is(err, target), target a sentinel: some error of the chain equals it
RECURSIVE Is(_, _)
Is(err, target) ==
  IF err = NilErr THEN FALSE
  ELSE IF <<Head(err)>> = target THEN TRUE
  ELSE Is(Tail(err), target)

\* errors.As(err, &x) with x a *pkg.type: some error of the chain has that type
RECURSIVE As(_, _, _)
As(err, pkg, type) ==
  IF err = NilErr THEN FALSE
  ELSE IF Head(err).pkg = pkg /\ Head(err).type = type THEN TRUE
  ELSE As(Tail(err), pkg, type)

\* the first error of the chain that has that type (what errors.As stores in x)
RECURSIVE AsTarget(_, _, _)
AsTarget(err, pkg, type) ==
  IF Head(err).pkg = pkg /\ Head(err).type = type THEN err
  ELSE AsTarget(Tail(err), pkg, type)

IsNotSupported(pkg, err) == Is(err, ErrNotSupported(pkg))
IsNotAvailable(pkg, err) == Is(err, ErrNotAvailable(pkg))
IsExternalFailure(pkg, err) == As(err, pkg, "ExternalFailureError")

\* the errors of errors_test.go, by name
ErrorKinds == {"nil", "generic", "ErrNotSupported", "NotSupportedError",
               "ErrNotAvailable", "NotAvailableError",
               "ExternalFailureError", "ExternalFailureError(Err)"}
Sample(kind) ==
  CASE kind = "nil" -> NilErr
    [] kind = "generic" -> Generic
    [] kind = "ErrNotSupported" -> ErrNotSupported(Pm)
    [] kind = "NotSupportedError" -> NotSupportedError(Pm, OperationInstall, "test")
    [] kind = "ErrNotAvailable" -> ErrNotAvailable(Pm)
    [] kind = "NotAvailableError" -> NotAvailableError(Pm, "test")
    [] kind = "ExternalFailureError" ->
         ExternalFailureError(Pm, OperationInstall, "test", NilErr)
    [] kind = "ExternalFailureError(Err)" ->
         ExternalFailureError(Pm, OperationInstall, "test", Generic)

\* n layers of fmt.Errorf("%w") around an error (nil stays nil: nothing to wrap)
RECURSIVE Wrapped(_, _)
Wrapped(err, n) == IF n = 0 \/ err = NilErr THEN err ELSE Wrapf(Wrapped(err, n - 1))

\* a caller classifies an error with the three predicates of package pm
Classify(kind, n) ==
  LET err == Wrapped(Sample(kind), n) IN
  /\ Uncalled
  /\ last' = [op |-> "Classify", kind |-> kind, layers |-> n, err |-> err,
              isNotSupported |-> IsNotSupported(Pm, err),
              isNotAvailable |-> IsNotAvailable(Pm, err),
              isExternalFailure |-> IsExternalFailure(Pm, err)]
  /\ UNCHANGED <<cfg, helpers, events, now, nextID, ret, hist, born, panicked, mu, inner,
                 threads, backend>>

\* ------------------------------------------------------------ capabilities
Capability(op, supported) == [Operation |-> op, Supported |-> supported, Notes |-> ""]
\* Capability{Operation: ..., Supported: ..., Notes: notes}
Noted(c, notes) == [c EXCEPT !.Notes = notes]

\* a Supports that only looks for the operation
SupportsAnyEntry(caps, op) == \E i \in DOMAIN caps : caps[i].Operation = op

\* for _, c := range caps { if c.Operation == op && c.Supported { return true } }
RECURSIVE Supports(_, _)
Supports(caps, op) ==
  IF caps = <<>> THEN FALSE
  ELSE IF Head(caps).Operation = op /\ Head(caps).Supported THEN TRUE
  ELSE Supports(Tail(caps), op)

\* capability lists of at most MaxCaps entries about the operations of TestSupports
CapEntries ==
  {Capability(op, f) : op \in {OperationSearch, OperationInstall}, f \in BOOLEAN}
    \cup {Noted(Capability(OperationInstall, FALSE), "not implemented")}
CapLists == UNION {[1..n -> CapEntries] : n \in 0..MaxCaps}

\* a lookup that only finds entries marked supported
GetCapabilitySupported(caps, op) ==
  LET hits == {i \in DOMAIN caps : caps[i].Operation = op /\ caps[i].Supported} IN
  IF hits = {} THEN [isNil |-> TRUE]
  ELSE LET i == CHOOSE k \in hits : \A j \in hits : k <= j IN
       [isNil |-> FALSE, at |-> i, val |-> caps[i]]

\* for i := range caps { if caps[i].Operation == op { return &caps[i] } }; return
\* nil: a pointer to the element of the list is its index and what is there
GetCapability(caps, op) ==
  LET RECURSIVE from(_)
      from(i) ==
        IF i > Len(caps) THEN [isNil |-> TRUE]
        ELSE IF caps[i].Operation = op THEN [isNil |-> FALSE, at |-> i, val |-> caps[i]]
        ELSE from(i + 1)
  IN from(1)

\* a caller asks Supports about a list it holds
CallSupports(caps, op) ==
  /\ Uncalled
  /\ last' = [op |-> "Supports", caps |-> caps, asked |-> op, result |-> Supports(caps, op)]
  /\ UNCHANGED <<cfg, helpers, events, now, nextID, ret, hist, born, panicked, mu, inner,
                 threads, backend>>

\* a caller looks an operation up in a list it holds
CallGetCapability(caps, op) ==
  /\ Uncalled
  /\ last' = [op |-> "GetCapability", caps |-> caps, asked |-> op,
              result |-> GetCapability(caps, op), supports |-> Supports(caps, op)]
  /\ UNCHANGED <<cfg, helpers, events, now, nextID, ret, hist, born, panicked, mu, inner,
                 threads, backend>>

\* ------------------------------------------------- goroutines and reporters
Free == 0                              \* the mutex is not held
NoOpReporter == "noOpReporter"         \* var noOpReporter = &noOpProgressReporter{}
InnerReporter == "p"                   \* the reporter handed to MakeThreadSafe
ThreadSafe == "threadSafe(p)"          \* &threadSafeProgressReporter{reporter: p}
Methods == {"OnAction", "OnTask", "OnStep", "OnMessage"}
NoCall == [method |-> "none", arg |-> NoID]

\* a goroutine that is not inside a call and has made none
FreshThread == [pc |-> "idle", call |-> NoCall, tmp |-> 0, calls |-> <<>>, returned |-> 0]

\* the goroutine calls a method of the wrapper: it stands at mu.Lock()
Entered(th, method, arg) ==
  [th EXCEPT !.pc = "lock", !.call = [method |-> method, arg |-> arg],
             !.calls = Append(th.calls, [method |-> method, arg |-> arg])]

\* the goroutine driving helper h is between two calls
Idle(h) == threads[h].pc = "idle"

Goroutines == DOMAIN threads

\* MakeThreadSafe(p): the no-op reporter for nil, else a wrapper around p
MakeThreadSafe(p) == IF p = Nil THEN NoOpReporter ELSE ThreadSafe

\* a mutex that never makes anybody wait
MutexAlwaysFree(m) == TRUE

\* sync.Mutex: Lock() goes through only while nobody holds it
MutexFree(m) == m = Free

\* a wrapper whose OnMessage hands the message to the inner OnStep
ForwardMessageAsStep(c) ==
  IF c.method = "OnMessage" THEN [method |-> "OnStep", arg |-> c.arg] ELSE c

\* the call each of the four wrapper methods makes on t.reporter
Forward(c) ==
  CASE c.method = "OnAction"  -> [method |-> "OnAction", arg |-> c.arg]
    [] c.method = "OnTask"    -> [method |-> "OnTask", arg |-> c.arg]
    [] c.method = "OnStep"    -> [method |-> "OnStep", arg |-> c.arg]
    [] c.method = "OnMessage" -> [method |-> "OnMessage", arg |-> c.arg]

\* t.mu.Lock()
Lock(g) ==
  /\ threads[g].pc = "lock"
  /\ MutexFree(mu)
  /\ mu' = g
  /\ threads' = [threads EXCEPT ![g].pc = "dispatch"]
  /\ UNCHANGED <<cfg, helpers, events, now, nextID, ret, hist, born, panicked, inner,
                backend, last>>

\* t.reporter.OnX(arg): the inner reporter's method is entered; it is not
\* synchronized itself and begins by reading its counter (calls++, append)
InnerEnter(g) ==
  LET c == Forward(threads[g].call) IN
  /\ threads[g].pc = "dispatch"
  /\ inner' = [inner EXCEPT !.active = @ \cup {g},
                            !.got[g] = Append(@, c)]
  /\ threads' = [threads EXCEPT ![g].pc = "inside", ![g].tmp = inner.count[c.method]]
  /\ UNCHANGED <<cfg, helpers, events, now, nextID, ret, hist, born, panicked, mu,
                backend, last>>

\* the inner reporter's method writes the counter back and returns
InnerReturn(g) ==
  LET c == inner.got[g][Len(inner.got[g])] IN
  /\ threads[g].pc = "inside"
  /\ inner' = [inner EXCEPT !.active = @ \ {g},
                            !.count[c.method] = threads[g].tmp + 1]
  /\ threads' = [threads EXCEPT ![g].pc = "unlock", ![g].tmp = 0]
  /\ UNCHANGED <<cfg, helpers, events, now, nextID, ret, hist, born, panicked, mu,
                backend, last>>

\* the deferred t.mu.Unlock(); the wrapper method returns to its caller
Unlock(g) ==
  /\ threads[g].pc = "unlock"
  /\ mu' = Free
  /\ threads' = [threads EXCEPT ![g].pc = "idle", ![g].call = NoCall,
                                ![g].returned = @ + 1]
  /\ UNCHANGED <<cfg, helpers, events, now, nextID, ret, hist, born, panicked, inner,
                backend, last>>

\* go func() { reporter.OnX(arg) }() with reporter := MakeThreadSafe(mock):
\* the one call a goroutine of the test makes
Call(g, method, arg) ==
  /\ Idle(g)
  /\ threads[g].calls = <<>>
  /\ MakeThreadSafe(InnerReporter) = ThreadSafe
  /\ threads' = [threads EXCEPT ![g] = Entered(threads[g], method, arg)]
  /\ UNCHANGED <<cfg, helpers, events, now, nextID, ret, hist, born, panicked, mu, inner,
                backend, last>>

\* the goroutine calls the wrapper once more, with the same event
CallAgain(g) ==
  /\ Idle(g)
  /\ threads[g].calls # <<>>
  /\ Len(threads[g].calls) < MaxCallsEach
  /\ threads' = [threads EXCEPT ![g] = Entered(threads[g], threads[g].calls[1].method,
                                                threads[g].calls[1].arg)]
  /\ UNCHANGED <<cfg, helpers, events, now, nextID, ret, hist, born, panicked, mu, inner,
                backend, last>>

\* the inner reporter's method panics instead of returning: the wrapper method
\* is left through its deferred call
InnerPanic(g) ==
  /\ threads[g].pc = "inside"
  /\ inner' = [inner EXCEPT !.active = @ \ {g}]
  /\ threads' = [threads EXCEPT ![g].pc = "unwind", ![g].tmp = 0]
  /\ UNCHANGED <<cfg, helpers, events, now, nextID, ret, hist, born, panicked, mu,
                backend, last>>

\* a wrapper that unlocks at the end of the method body, not in a defer
UnwindHolding(g) ==
  /\ threads[g].pc = "unwind"
  /\ threads' = [threads EXCEPT ![g].pc = "panicked", ![g].call = NoCall]
  /\ UNCHANGED <<cfg, helpers, events, now, nextID, ret, hist, born, panicked, mu, inner,
                backend, last>>

\* defer t.mu.Unlock() runs while the panic unwinds the wrapper method; the
\* panic goes on into the caller
Unwind(g) ==
  /\ threads[g].pc = "unwind"
  /\ mu' = Free
  /\ threads' = [threads EXCEPT ![g].pc = "panicked", ![g].call = NoCall]
  /\ UNCHANGED <<cfg, helpers, events, now, nextID, ret, hist, born, panicked, inner,
                backend, last>>

\* ------------------------------------------------------- ProgressHelper
FreshHelper ==
  [created |-> FALSE, dflt |-> Nil, ovr |-> Nil, reporter |-> Nil,
   currentAction |-> NilPtr(ZeroAction), currentTask |-> NilPtr(ZeroTask),
   currentStep |-> NilPtr(ZeroStep)]

HelperIds == DOMAIN helpers

\* a constructor that prefers the default reporter
ResolveDefaultFirst(defaultReporter, overrideReporter) ==
  IF defaultReporter = Nil THEN overrideReporter ELSE defaultReporter

\* reporter := overrideReporter; if reporter == nil { reporter = defaultReporter }
Resolve(defaultReporter, overrideReporter) ==
  IF overrideReporter = Nil THEN defaultReporter ELSE overrideReporter

\* a method that does not look at the reporter before using it
ReporterNeverNil(hs) == FALSE

\* the guard `h.reporter == nil` at the top of every method
ReporterIsNil(hs) == hs.reporter = Nil

\* h.reporter.OnX(arg): a call on the reporter. On a nil interface it panics; the
\* no-op reporter returns at once; the wrapper made by MakeThreadSafe is entered
\* (the goroutine goes on at its mu.Lock()); any other reporter records the call.
\* (from, via: the helper and the helper method that made the call)
Deliver(h, via, method, arg) ==
  LET r == helpers[h].reporter IN
  /\ UNCHANGED <<mu, inner, backend, last>>
  /\ CASE r = Nil ->
            panicked' = TRUE /\ UNCHANGED <<events, threads>>
       [] r = NoOpReporter ->
            UNCHANGED <<events, panicked, threads>>
       [] r = ThreadSafe ->
            /\ threads' = [threads EXCEPT ![h] = Entered(threads[h], method, arg)]
            /\ UNCHANGED <<events, panicked>>
       [] OTHER ->
            /\ events' = Append(events, [to |-> r, from |-> h, via |-> via,
                                          method |-> method, arg |-> arg])
            /\ UNCHANGED <<panicked, threads>>

\* the last Begin* call: what it returned and which delivery it made, if any
Returns(h, op, val) ==
  ret' = [helper |-> h, op |-> op, val |-> val,
          at |-> IF Len(events') > Len(events) THEN Len(events') ELSE 0]

NewProgressHelper(h, defaultReporter, overrideReporter) ==
  /\ ~helpers[h].created
  /\ helpers' = [helpers EXCEPT ![h] =
                   [FreshHelper EXCEPT !.created = TRUE,
                                       !.dflt = defaultReporter, !.ovr = overrideReporter,
                                       !.reporter = Resolve(defaultReporter, overrideReporter)]]
  /\ UNCHANGED <<cfg, events, ret, now, nextID, hist, born, panicked, mu, inner, threads,
                backend, last>>

\* a call that returns at the reporter guard
NoOp == UNCHANGED vars

CurrentID(ptr) == IF ptr.isNil THEN NoID ELSE ptr.val.ID

NewAction(id, name, t) == [ID |-> id, Name |-> name, StartedAt |-> t, EndedAt |-> ZeroTime]

BeginAction(h, name) ==
  LET hs == helpers[h] IN
  /\ hs.created
  /\ Idle(h)
  /\ IF ReporterIsNil(hs)
     THEN /\ UNCHANGED <<cfg, helpers, events, now, nextID, hist, born, panicked,
                         mu, inner, threads,
                backend, last>>
          /\ Returns(h, "BeginAction", NoID)
     ELSE \E t \in NowChoices :
          LET action == NewAction(NewUUID(nextID), name, t) IN
          /\ Len(events) < cfg.limit
          /\ helpers' = [helpers EXCEPT ![h].currentAction = Ptr(action)]
          /\ Deliver(h, "BeginAction", "OnAction", action)
          /\ now' = t
          /\ nextID' = nextID + 1
          /\ Returns(h, "BeginAction", action.ID)
          /\ hist' = [hist EXCEPT ![h] = ObsBegin(hist[h], "action", action.ID)]
          /\ cfg.nestedOnly => hist'[h].nested
          /\ born' = Append(born, [id |-> action.ID, level |-> "action", parent |-> NoID,
                                   helper |-> h])
          /\ UNCHANGED cfg

\* an EndAction without the cascade
EndActionKeepsLower(hs) == [hs EXCEPT !.currentAction = NilPtr(ZeroAction)]

\* part_013: clears the current action and, with it, the current task and step
EndActionProgress(hs) ==
  [hs EXCEPT !.currentAction = NilPtr(ZeroAction),
             !.currentTask = NilPtr(ZeroTask),
             !.currentStep = NilPtr(ZeroStep)]

\* internal/types: clears the current action only
EndActionTypes(hs) == [hs EXCEPT !.currentAction = NilPtr(ZeroAction)]

\* an End* that re-sends the value without stamping its end time
EndedUnstamped(v, t) == v

Ended(v, t) == [v EXCEPT !.EndedAt = t]

EndAction(h) ==
  LET hs == helpers[h] IN
  /\ hs.created
  /\ Idle(h)
  /\ IF ReporterIsNil(hs) \/ hs.currentAction.isNil
     THEN /\ UNCHANGED ret
          /\ hist' = [hist EXCEPT ![h] = ObsEnd(hist[h], "action", FALSE)]
          /\ cfg.nestedOnly => hist'[h].nested
          /\ UNCHANGED <<cfg, helpers, events, now, nextID, born, panicked,
                         mu, inner, threads,
                backend, last>>
     ELSE \E t \in NowChoices :
          LET action == Ended(hs.currentAction.val, t) IN
          /\ Len(events) < cfg.limit
          /\ Deliver(h, "EndAction", "OnAction", action)
          /\ helpers' = [helpers EXCEPT ![h] =
                           IF cfg.impl = ImplProgress THEN EndActionProgress(hs)
                                                     ELSE EndActionTypes(hs)]
          /\ now' = t
          /\ hist' = [hist EXCEPT ![h] = ObsEnd(hist[h], "action", TRUE)]
          /\ cfg.nestedOnly => hist'[h].nested
          /\ UNCHANGED <<cfg, nextID, ret, born>>

\* a BeginTask that forgets to record the current action
NewTaskOrphan(id, actionID, name, t) ==
  [ID |-> id, ActionID |-> NoID, Name |-> name, StartedAt |-> t, EndedAt |-> ZeroTime]

NewTask(id, actionID, name, t) ==
  [ID |-> id, ActionID |-> actionID, Name |-> name, StartedAt |-> t, EndedAt |-> ZeroTime]

BeginTask(h, name) ==
  LET hs == helpers[h] IN
  /\ hs.created
  /\ Idle(h)
  /\ IF ReporterIsNil(hs)
     THEN /\ UNCHANGED <<cfg, helpers, events, now, nextID, hist, born, panicked,
                         mu, inner, threads,
                backend, last>>
          /\ Returns(h, "BeginTask", NoID)
     ELSE \E t \in NowChoices :
          LET task == NewTask(NewUUID(nextID), CurrentID(hs.currentAction), name, t) IN
          /\ Len(events) < cfg.limit
          /\ helpers' = [helpers EXCEPT ![h].currentTask = Ptr(task)]
          /\ Deliver(h, "BeginTask", "OnTask", task)
          /\ now' = t
          /\ nextID' = nextID + 1
          /\ Returns(h, "BeginTask", task.ID)
          /\ hist' = [hist EXCEPT ![h] = ObsBegin(hist[h], "task", task.ID)]
          /\ cfg.nestedOnly => hist'[h].nested
          /\ born' = Append(born, [id |-> task.ID, level |-> "task",
                                   parent |-> IF hs.currentAction.isNil THEN NoID
                                              ELSE hs.currentAction.val.ID,
                                   helper |-> h])
          /\ UNCHANGED cfg

\* an EndTask that clears the step but leaves the ended task current
EndTaskKeepsTask(hs) == [hs EXCEPT !.currentStep = NilPtr(ZeroStep)]

\* part_013: clears the current task and, with it, the current step
EndTaskProgress(hs) ==
  [hs EXCEPT !.currentTask = NilPtr(ZeroTask), !.currentStep = NilPtr(ZeroStep)]

\* internal/types: clears the current task only
EndTaskTypes(hs) == [hs EXCEPT !.currentTask = NilPtr(ZeroTask)]

EndTask(h) ==
  LET hs == helpers[h] IN
  /\ hs.created
  /\ Idle(h)
  /\ IF ReporterIsNil(hs) \/ hs.currentTask.isNil
     THEN /\ UNCHANGED ret
          /\ hist' = [hist EXCEPT ![h] = ObsEnd(hist[h], "task", FALSE)]
          /\ cfg.nestedOnly => hist'[h].nested
          /\ UNCHANGED <<cfg, helpers, events, now, nextID, born, panicked,
                         mu, inner, threads,
                backend, last>>
     ELSE \E t \in NowChoices :
          LET task == Ended(hs.currentTask.val, t) IN
          /\ Len(events) < cfg.limit
          /\ Deliver(h, "EndTask", "OnTask", task)
          /\ helpers' = [helpers EXCEPT ![h] =
                           IF cfg.impl = ImplProgress THEN EndTaskProgress(hs)
                                                     ELSE EndTaskTypes(hs)]
          /\ now' = t
          /\ hist' = [hist EXCEPT ![h] = ObsEnd(hist[h], "task", TRUE)]
          /\ cfg.nestedOnly => hist'[h].nested
          /\ UNCHANGED <<cfg, nextID, ret, born>>

\* a BeginStep that names the step after its task
NewStepReusesTaskID(id, taskID, name, t) ==
  [ID |-> IF taskID # NoID THEN taskID ELSE id, TaskID |-> taskID, Name |-> name,
   StartedAt |-> t, EndedAt |-> ZeroTime]

NewStep(id, taskID, name, t) ==
  [ID |-> id, TaskID |-> taskID, Name |-> name, StartedAt |-> t, EndedAt |-> ZeroTime]

BeginStep(h, name) ==
  LET hs == helpers[h] IN
  /\ hs.created
  /\ Idle(h)
  /\ IF ReporterIsNil(hs)
     THEN /\ UNCHANGED <<cfg, helpers, events, now, nextID, hist, born, panicked,
                         mu, inner, threads,
                backend, last>>
          /\ Returns(h, "BeginStep", NoID)
     ELSE \E t \in NowChoices :
          LET step == NewStep(NewUUID(nextID), CurrentID(hs.currentTask), name, t) IN
          /\ Len(events) < cfg.limit
          /\ helpers' = [helpers EXCEPT ![h].currentStep = Ptr(step)]
          /\ Deliver(h, "BeginStep", "OnStep", step)
          /\ now' = t
          /\ nextID' = nextID + 1
          /\ Returns(h, "BeginStep", step.ID)
          /\ hist' = [hist EXCEPT ![h] = ObsBegin(hist[h], "step", step.ID)]
          /\ cfg.nestedOnly => hist'[h].nested
          /\ born' = Append(born, [id |-> step.ID, level |-> "step",
                                   parent |-> IF hs.currentTask.isNil THEN NoID
                                              ELSE hs.currentTask.val.ID,
                                   helper |-> h])
          /\ UNCHANGED cfg

EndStep(h) ==
  LET hs == helpers[h] IN
  /\ hs.created
  /\ Idle(h)
  /\ IF ReporterIsNil(hs) \/ hs.currentStep.isNil
     THEN /\ UNCHANGED ret
          /\ hist' = [hist EXCEPT ![h] = ObsEnd(hist[h], "step", FALSE)]
          /\ cfg.nestedOnly => hist'[h].nested
          /\ UNCHANGED <<cfg, helpers, events, now, nextID, born, panicked,
                         mu, inner, threads,
                backend, last>>
     ELSE \E t \in NowChoices :
          LET step == Ended(hs.currentStep.val, t) IN
          /\ Len(events) < cfg.limit
          /\ Deliver(h, "EndStep", "OnStep", step)
          /\ helpers' = [helpers EXCEPT ![h].currentStep = NilPtr(ZeroStep)]
          /\ now' = t
          /\ hist' = [hist EXCEPT ![h] = ObsEnd(hist[h], "step", TRUE)]
          /\ cfg.nestedOnly => hist'[h].nested
          /\ UNCHANGED <<cfg, nextID, ret, born>>

\* a message that leaves out the innermost level
NewMessageNoStep(hs, severity, text, t) ==
  [Severity |-> severity, Text |-> text, Timestamp |-> t,
   ActionID |-> CurrentID(hs.currentAction),
   TaskID |-> CurrentID(hs.currentTask),
   StepID |-> NoID]

NewMessage(hs, severity, text, t) ==
  [Severity |-> severity, Text |-> text, Timestamp |-> t,
   ActionID |-> CurrentID(hs.currentAction),
   TaskID |-> CurrentID(hs.currentTask),
   StepID |-> CurrentID(hs.currentStep)]

message(h, op, severity, text) ==
  LET hs == helpers[h] IN
  /\ hs.created
  /\ Idle(h)
  /\ IF ReporterIsNil(hs)
     THEN NoOp
     ELSE \E t \in NowChoices :
          /\ Len(events) < cfg.limit
          /\ Deliver(h, op, "OnMessage", NewMessage(hs, severity, text, t))
          /\ now' = t
          /\ UNCHANGED <<cfg, helpers, nextID, ret, hist, born>>

Info(h, text) == message(h, "Info", SeverityInfo, text)
Warning(h, text) == message(h, "Warning", SeverityWarning, text)
Error(h, text) == message(h, "Error", SeverityError, text)

\* ------------------------------------------------- command output (strings)
\* The output of a command is the sequence of its lines (strings.Split(stdout,
\* "\n")); a line is the sequence of its words (strings.Fields(line)), so the
\* empty string is one line without words and strings.TrimSpace changes nothing.
EmptyLine == <<>>
Fields(line) == line
NonBlank(stdout) == \E i \in DOMAIN stdout : stdout[i] # EmptyLine

\* words of which another word of the outputs below is a substring
HasSub(word, pat) == word = pat \/ (word = "uninstalled" /\ pat = "installed")

\* strings.Contains(line, pat), pat one or more words separated by single spaces
LineContains(line, pat) ==
  \E i \in DOMAIN line :
    /\ i + Len(pat) - 1 <= Len(line)
    /\ \A j \in DOMAIN pat :
         IF Len(pat) = 1 THEN HasSub(line[i + j - 1], pat[j]) ELSE line[i + j - 1] = pat[j]

\* strings.Contains(stdout, pat): no pattern of the backends holds a newline
Contains(stdout, pat) == \E i \in DOMAIN stdout : LineContains(stdout[i], pat)

\* strings.HasPrefix(strings.TrimSpace(line), word)
HasPrefix(line, word) == line # EmptyLine /\ Head(line) = word

\* what the commands of an operation may print, line by line
OutputLines(operation) ==
  CASE operation = OperationUpgradePackages ->
         {EmptyLine, <<"==>", "Upgrading">>, <<"==>", "Upgrading", "foo">>,
          <<"Updating">>, <<"Updating", "foo">>, <<"foo", "refreshed">>,
          <<"All", "snaps", "up", "to", "date">>}
    [] operation = OperationUpdateMetadata ->
         {EmptyLine, <<"Updated">>, <<"Updating">>, <<"foo", "1.0">>,
          <<"All", "snaps", "up", "to", "date">>}
    [] operation = OperationInstall ->
         {EmptyLine, <<"==>", "Installing", "foo">>, <<"==>", "Downloading">>,
          <<"foo", "installed">>,
          <<"Installing">>, <<"bar", "uninstalled">>}
    [] operation = OperationUninstall ->
         {EmptyLine, <<"==>", "Uninstalling", "foo">>, <<"Uninstalling", "foo">>,
          <<"foo", "removed">>, <<"bar", "uninstalled">>}
    [] OTHER -> {EmptyLine, <<"foo", "1.0">>}

Outputs(operation) == UNION {[1..n -> OutputLines(operation)] : n \in 1..MaxLines}

\* ------------------------------------------------------------------ runner
\* The bytes of a string. The words of the outputs, spelled; the words named
\* "x*..." stand for as many bytes 'x' as their name says.
Spell(word) ==
  CASE word = "==>" -> <<"=", "=", ">">>
    [] word = "Upgrading" -> <<"U", "p", "g", "r", "a", "d", "i", "n", "g">>
    [] word = "foo" -> <<"f", "o", "o">>
    [] word = "Updating" -> <<"U", "p", "d", "a", "t", "i", "n", "g">>
    [] word = "refreshed" -> <<"r", "e", "f", "r", "e", "s", "h", "e", "d">>
    [] word = "All" -> <<"A", "l", "l">>
    [] word = "snaps" -> <<"s", "n", "a", "p", "s">>
    [] word = "up" -> <<"u", "p">>
    [] word = "to" -> <<"t", "o">>
    [] word = "date" -> <<"d", "a", "t", "e">>
    [] word = "Updated" -> <<"U", "p", "d", "a", "t", "e", "d">>
    [] word = "1.0" -> <<"1", ".", "0">>
    [] word = "Installing" -> <<"I", "n", "s", "t", "a", "l", "l", "i", "n", "g">>
    [] word = "Downloading" -> <<"D", "o", "w", "n", "l", "o", "a", "d", "i", "n", "g">>
    [] word = "installed" -> <<"i", "n", "s", "t", "a", "l", "l", "e", "d">>
    [] word = "bar" -> <<"b", "a", "r">>
    [] word = "uninstalled" -> <<"u", "n", "i", "n", "s", "t", "a", "l", "l", "e", "d">>
    [] word = "Uninstalling" -> <<"U", "n", "i", "n", "s", "t", "a", "l", "l", "i", "n", "g">>
    [] word = "removed" -> <<"r", "e", "m", "o", "v", "e", "d">>
    [] word = "Error:" -> <<"E", "r", "r", "o", "r", ":">>
    [] word = "failed" -> <<"f", "a", "i", "l", "e", "d">>
    [] word = "x*(maxLen-1)" -> [i \in 1..(maxLen - 1) |-> "x"]
    [] word = "x*maxLen" -> [i \in 1..maxLen |-> "x"]
    [] word = "x*(maxLen+1)" -> [i \in 1..(maxLen + 1) |-> "x"]
    [] word = "x*(2*maxLen)" -> [i \in 1..(2 * maxLen) |-> "x"]

\* the string that is these lines, joined by "\n", of words joined by " "
Bytes(text) ==
  LET RECURSIVE line(_, _)
      line(l, k) == IF k = 0 THEN <<>>
                    ELSE IF k = 1 THEN Spell(l[1])
                    ELSE line(l, k - 1) \o <<" ">> \o Spell(l[k])
      RECURSIVE lines(_)
      lines(k) == IF k = 0 THEN <<>>
                  ELSE IF k = 1 THEN line(text[1], Len(text[1]))
                  ELSE lines(k - 1) \o <<"\n">> \o line(text[k], Len(text[k]))
  IN lines(Len(text))

\* "... (truncated)"
Truncated == <<".", ".", ".", " ", "(", "t", "r", "u", "n", "c", "a", "t", "e", "d", ")">>

\* a limiter that cuts a string that has reached the limit
sanitizeFrom(s) == IF Len(s) >= maxLen THEN SubSeq(s, 1, maxLen) \o Truncated ELSE s

\* if len(s) > maxLen { return s[:maxLen] + "... (truncated)" }; return s
sanitize(s) == IF Len(s) > maxLen THEN SubSeq(s, 1, maxLen) \o Truncated ELSE s

\* what Runner.Run answers: the output, the error output and the error of the
\* command
ExitError == ErrorsNew("exec", "exit status 1")
NoStderr == <<EmptyLine>>
RunAnswers(operation) ==
  {[stdout |-> out, stderr |-> NoStderr, err |-> NilErr] : out \in Outputs(operation)}
    \cup {[stdout |-> <<line>>, stderr |-> << <<"Error:", "failed">> >>, err |-> ExitError] :
            line \in OutputLines(operation)}

\* answers with outputs around the limit of sanitize, as TestSanitize and
\* TestRunWithExternalError_Sanitization make them
LongOutputs ==
  {<<EmptyLine>>, << <<"foo", "1.0">> >>, << <<"x*(maxLen-1)">> >>, << <<"x*maxLen">> >>,
   << <<"x*(maxLen+1)">> >>, << <<"x*(maxLen-1)">>, <<"foo", "1.0">> >>,
   << <<"x*(2*maxLen)">> >>}
LongAnswers ==
  {[stdout |-> out, stderr |-> errout, err |-> e] :
     out \in LongOutputs, errout \in LongOutputs, e \in {NilErr, ExitError}}

\* RunWithExternalError: stdout and stderr as the runner gave them; a failure of
\* the command becomes an ExternalFailureError with the sanitized outputs
RunWithExternalError(run, operation, b) ==
  IF run.err # NilErr
  THEN [stdout |-> run.stdout, stderr |-> run.stderr,
        err |-> Holding(ExternalFailureError(Types, operation, b, run.err),
                        sanitize(Bytes(run.stdout)), sanitize(Bytes(run.stderr)), "nil")]
  ELSE [stdout |-> run.stdout, stderr |-> run.stderr, err |-> NilErr]

\* a caller (exec_test.go, or a backend) runs a command through
\* RunWithExternalError
CallRunWithExternalError(run, operation, b) ==
  /\ Uncalled
  /\ last' = [op |-> "RunWithExternalError", run |-> run, operation |-> operation,
              name |-> b, result |-> RunWithExternalError(run, operation, b)]
  /\ UNCHANGED <<cfg, helpers, events, now, nextID, ret, hist, born, panicked, mu, inner,
                 threads, backend>>

\* ---------------------------------------------------- progress of one call
\* The helper of one backend call, the events it has delivered so far and the
\* next identifier of uuid: the helper methods above, applied one after another
\* within the call (which reads the clock as `now` throughout).
Event(hs, method, arg) == [to |-> hs.reporter, method |-> method, arg |-> arg]

Helper(defaultReporter, overrideReporter) ==
  [hs |-> [FreshHelper EXCEPT !.created = TRUE,
                              !.dflt = defaultReporter, !.ovr = overrideReporter,
                              !.reporter = Resolve(defaultReporter, overrideReporter)],
   out |-> <<>>, id |-> nextID]

ThenBeginAction(r, name) ==
  IF ReporterIsNil(r.hs) THEN r
  ELSE LET action == NewAction(NewUUID(r.id), name, now) IN
       [hs |-> [r.hs EXCEPT !.currentAction = Ptr(action)],
        out |-> Append(r.out, Event(r.hs, "OnAction", action)), id |-> r.id + 1]

ThenBeginTask(r, name) ==
  IF ReporterIsNil(r.hs) THEN r
  ELSE LET task == NewTask(NewUUID(r.id), CurrentID(r.hs.currentAction), name, now) IN
       [hs |-> [r.hs EXCEPT !.currentTask = Ptr(task)],
        out |-> Append(r.out, Event(r.hs, "OnTask", task)), id |-> r.id + 1]

ThenEndTask(r) ==
  IF ReporterIsNil(r.hs) \/ r.hs.currentTask.isNil THEN r
  ELSE [hs |-> IF cfg.impl = ImplProgress THEN EndTaskProgress(r.hs) ELSE EndTaskTypes(r.hs),
        out |-> Append(r.out, Event(r.hs, "OnTask", Ended(r.hs.currentTask.val, now))),
        id |-> r.id]

ThenMessage(r, severity, text) ==
  IF ReporterIsNil(r.hs) THEN r
  ELSE [hs |-> r.hs,
        out |-> Append(r.out, Event(r.hs, "OnMessage", NewMessage(r.hs, severity, text, now))),
        id |-> r.id]

ThenEndAction(r) ==
  IF ReporterIsNil(r.hs) \/ r.hs.currentAction.isNil THEN r
  ELSE [hs |-> IF cfg.impl = ImplProgress THEN EndActionProgress(r.hs)
                                          ELSE EndActionTypes(r.hs),
        out |-> Append(r.out, Event(r.hs, "OnAction", Ended(r.hs.currentAction.val, now))),
        id |-> r.id]

\* a call that reports nothing (it returned before it made a helper)
Silent == [out |-> <<>>, id |-> nextID]

\* an operation that ends its Action on the success path only
ReportedOpenOnFailure(r, name, failed) ==
  LET ran == ThenEndTask(ThenBeginTask(ThenBeginAction(r, name), "Running")) IN
  IF failed THEN ThenMessage(ran, SeverityError, "failed")
  ELSE ThenEndAction(ThenMessage(ran, SeverityInfo, "completed"))

\* the progress every command-running operation makes: BeginAction(name); defer
\* EndAction(); BeginTask(...); run; EndTask(); Error(...) or Info(...); return
Reported(r, name, failed) ==
  ThenEndAction(
    ThenMessage(ThenEndTask(ThenBeginTask(ThenBeginAction(r, name), "Running")),
                IF failed THEN SeverityError ELSE SeverityInfo,
                IF failed THEN "failed" ELSE "completed"))

\* ------------------------------------------- brew, flatpak, snap backends
Kinds == {"brew", "flatpak", "snap"}
Runners == {Nil, "runner"}             \* no runner, or a (fake or real) Runner
PackageRef(name, kind) == [Name |-> name, Kind |-> kind]
PkgLists == {<<>>, <<PackageRef("foo", "")>>,
             <<PackageRef("bar", ""), PackageRef("foo", "")>>}
Queries == {"", "foo"}

\* an UpdateResult with a list of packages, as UpgradeResult has
UpdateResultWithPackages == [Changed |-> FALSE, PackagesChanged |-> <<>>, Messages |-> <<>>]
ZeroUpdateResult == [Changed |-> FALSE, Messages |-> <<>>]
ZeroUpgradeResult == [Changed |-> FALSE, PackagesChanged |-> <<>>, Messages |-> <<>>]
ZeroInstallResult == [Changed |-> FALSE, PackagesInstalled |-> <<>>, Messages |-> <<>>]
ZeroUninstallResult == [Changed |-> FALSE, PackagesUninstalled |-> <<>>, Messages |-> <<>>]

\* New(httpClient, r, progress) / New(r, progress)
New(kind, r, progress) ==
  /\ backend' = [kind |-> kind, runner |-> r, progress |-> progress]
  /\ last' = [op |-> "New"]
  /\ UNCHANGED <<cfg, helpers, events, now, nextID, ret, hist, born, panicked, mu, inner,
                 threads>>

\* the helper an operation makes: brew and flatpak call
\* NewProgressHelper(b.progress, opts.Progress), snap NewProgressHelper(opts.Progress)
HelperOf(b, progress) ==
  IF b.kind = "snap" THEN Helper(progress, Nil) ELSE Helper(b.progress, progress)

\* capabilities that go by the runner alone
CapabilitiesByRunner(b) ==
  [i \in 1..6 |->
     Capability(<<OperationSearch, OperationUpdateMetadata, OperationUpgradePackages,
                  OperationInstall, OperationUninstall, OperationListInstalled>>[i],
                b.runner # Nil)]

\* Capabilities: every operation is supported when there is a runner; brew's
\* Search (Formulae API) always
CapabilitiesOf(b) ==
  LET hasRunner == b.runner # Nil
      via(operation) ==
        CASE b.kind = "brew" ->
               (CASE operation = OperationSearch -> "via Formulae API"
                  [] operation = OperationUpdateMetadata -> "via brew update CLI"
                  [] operation = OperationUpgradePackages -> "via brew upgrade CLI"
                  [] operation = OperationInstall -> "via brew install CLI"
                  [] operation = OperationUninstall -> "via brew uninstall CLI"
                  [] operation = OperationListInstalled -> "via brew list CLI")
          [] b.kind = "flatpak" ->
               (CASE operation = OperationSearch -> "via flatpak search CLI"
                  [] operation = OperationUpdateMetadata -> "via flatpak update CLI"
                  [] operation = OperationUpgradePackages -> "via flatpak update CLI"
                  [] operation = OperationInstall -> "via flatpak install CLI"
                  [] operation = OperationUninstall -> "via flatpak uninstall CLI"
                  [] operation = OperationListInstalled -> "via flatpak list CLI")
          [] b.kind = "snap" ->
               (CASE operation = OperationSearch -> "via snap find CLI"
                  [] operation = OperationUpdateMetadata -> "via snap refresh CLI"
                  [] operation = OperationUpgradePackages -> "via snap refresh CLI"
                  [] operation = OperationInstall -> "via snap install CLI"
                  [] operation = OperationUninstall -> "via snap remove CLI"
                  [] operation = OperationListInstalled -> "via snap list CLI")
      entry(operation, supported) == Noted(Capability(operation, supported), via(operation))
  IN
  << entry(OperationSearch, IF b.kind = "brew" THEN TRUE ELSE hasRunner),
     entry(OperationUpdateMetadata, hasRunner),
     entry(OperationUpgradePackages, hasRunner),
     entry(OperationInstall, hasRunner),
     entry(OperationUninstall, hasRunner),
     entry(OperationListInstalled, hasRunner) >>

\* Update: whether the output tells of refreshed metadata
UpdateChanged(kind, stdout) ==
  CASE kind = "brew" ->
         Contains(stdout, <<"Updated">>) \/ Contains(stdout, <<"Homebrew", "updated">>)
    [] kind = "flatpak" ->
         Contains(stdout, <<"Updating">>) \/ Contains(stdout, <<"Updated">>)
    [] kind = "snap" ->
         NonBlank(stdout) /\ ~Contains(stdout, <<"All", "snaps", "up", "to", "date">>)

\* Upgrade: the line tells of an upgraded package
UpgradeLine(kind, line) ==
  CASE kind = "brew" -> LineContains(line, <<"==>", "Upgrading">>)
    [] kind = "flatpak" -> HasPrefix(line, "Updating")
    [] kind = "snap" ->
         LineContains(line, <<"refreshed">>) \/ LineContains(line, <<"installed">>)

\* Upgrade: the package an upgrade line names, if it has that many fields
\* (brew parts[2], flatpak parts[1], snap fields[0])
UpgradeField(kind) == CASE kind = "brew" -> 3 [] kind = "flatpak" -> 2 [] kind = "snap" -> 1
UpgradeKindOf(kind) ==
  CASE kind = "brew" -> "formula" [] kind = "flatpak" -> "app" [] kind = "snap" -> "snap"

\* Upgrade: the loop over the first n lines of the output
UpgradeScan(kind, stdout, n) ==
  LET RECURSIVE scan(_)
      scan(k) ==
        IF k = 0 THEN [changed |-> FALSE, packagesChanged |-> <<>>]
        ELSE LET acc == scan(k - 1)
                 line == stdout[k] IN
             IF UpgradeLine(kind, line)
             THEN [changed |-> TRUE,
                   packagesChanged |->
                     IF Len(Fields(line)) >= UpgradeField(kind)
                     THEN Append(acc.packagesChanged,
                                 PackageRef(Fields(line)[UpgradeField(kind)],
                                            UpgradeKindOf(kind)))
                     ELSE acc.packagesChanged]
             ELSE acc
  IN scan(n)

\* Upgrade: the result built from the output; snap takes `changed` back when the
\* output says "All snaps up to date"
UpgradeParse(kind, stdout) ==
  LET acc == UpgradeScan(kind, stdout, Len(stdout))
      changed == IF kind = "snap" /\ Contains(stdout, <<"All", "snaps", "up", "to", "date">>)
                 THEN FALSE ELSE acc.changed IN
  [Changed |-> changed, PackagesChanged |-> acc.packagesChanged, Messages |-> <<>>]

\* Install / Uninstall: the line confirms a change
ChangeLine(kind, operation, line) ==
  CASE kind = "brew" /\ operation = OperationInstall ->
         LineContains(line, <<"==>", "Installing">>)
           \/ LineContains(line, <<"==>", "Downloading">>)
    [] kind = "brew" /\ operation = OperationUninstall ->
         LineContains(line, <<"==>", "Uninstalling">>)
    [] kind = "flatpak" /\ operation = OperationInstall ->
         LineContains(line, <<"Installing">>) \/ LineContains(line, <<"installed">>)
    [] kind = "flatpak" /\ operation = OperationUninstall ->
         LineContains(line, <<"Uninstalling">>) \/ LineContains(line, <<"uninstalled">>)
    [] kind = "snap" /\ operation = OperationInstall -> LineContains(line, <<"installed">>)
    [] kind = "snap" /\ operation = OperationUninstall -> LineContains(line, <<"removed">>)

\* for _, pkg := range pkgs { if strings.Contains(line, pkg.Name) { ...; break } }
RECURSIVE FirstNamed(_, _)
FirstNamed(line, pkgs) ==
  IF pkgs = <<>> THEN <<>>
  ELSE IF LineContains(line, <<Head(pkgs).Name>>) THEN <<Head(pkgs)>>
  ELSE FirstNamed(line, Tail(pkgs))

\* Install / Uninstall of flatpak and snap: the loop over the first n lines
ChangeScan(kind, operation, stdout, pkgs, n) ==
  LET RECURSIVE scan(_)
      scan(k) ==
        IF k = 0 THEN [changed |-> FALSE, named |-> <<>>]
        ELSE LET acc == scan(k - 1) IN
             IF ChangeLine(kind, operation, stdout[k])
             THEN [changed |-> TRUE, named |-> acc.named \o FirstNamed(stdout[k], pkgs)]
             ELSE acc
  IN scan(n)

\* a parser that reports the packages it found named, without the fallback
ChangeParseNamedOnly(kind, operation, stdout, pkgs) ==
  ChangeScan(kind, operation, stdout, pkgs, Len(stdout))

\* Install / Uninstall: whether anything changed and which packages. brew takes
\* all requested packages when any line confirms; flatpak and snap those named
\* in confirming lines, or all requested ones when none was named
ChangeParse(kind, operation, stdout, pkgs) ==
  LET acc == ChangeScan(kind, operation, stdout, pkgs, Len(stdout)) IN
  IF kind = "brew"
  THEN [changed |-> acc.changed, named |-> IF acc.changed THEN pkgs ELSE <<>>]
  ELSE [changed |-> acc.changed,
        named |-> IF acc.changed /\ acc.named = <<>> THEN pkgs ELSE acc.named]

\* ---------------------------------------------------- the adapter of pm
\* errors an internal backend returns, by kind, with their fields set
Internal(kind) ==
  CASE kind = "nil" -> NilErr
    [] kind = "generic" -> Generic
    [] kind = "ErrNotSupported" -> ErrNotSupported(Types)
    [] kind = "NotSupportedError" ->
         Because(NotSupportedError(Types, OperationInstall, "test"), "read-only")
    [] kind = "ErrNotAvailable" -> ErrNotAvailable(Types)
    [] kind = "NotAvailableError" ->
         Because(NotAvailableError(Types, "test"), "binary not found")
    [] kind = "ExternalFailureError" ->
         Holding(ExternalFailureError(Types, OperationUpdateMetadata, "test", NilErr),
                 <<"o", "u", "t">>, <<"e", "r", "r">>, "nil")
    [] kind = "ExternalFailureError(Err)" ->
         Holding(ExternalFailureError(Types, OperationUpdateMetadata, "test", Generic),
                 <<"o", "u", "t">>, <<>>, "exit_code")

\* a conversion that keeps the kind of an error and drops its fields
convertErrorToSentinel(err) ==
  IF err = NilErr THEN NilErr
  ELSE IF IsNotSupported(Types, err) THEN ErrNotSupported(Pm)
  ELSE IF IsNotAvailable(Types, err) THEN ErrNotAvailable(Pm)
  ELSE IF IsExternalFailure(Types, err)
    THEN ExternalFailureError(Pm, "", "", NilErr)
  ELSE err
\* convertError: an error of internal/types becomes the one of package pm
convertError(err) ==
  IF err = NilErr THEN NilErr
  ELSE IF err = ErrNotSupported(Types) THEN ErrNotSupported(Pm)
  ELSE IF err = ErrNotAvailable(Types) THEN ErrNotAvailable(Pm)
  ELSE IF IsNotSupported(Types, err)
    THEN IF As(err, Types, "NotSupportedError")
         THEN LET x == Head(AsTarget(err, Types, "NotSupportedError")) IN
              Because(NotSupportedError(Pm, x.Operation, x.Backend), x.Reason)
         ELSE ErrNotSupported(Pm)
  ELSE IF IsNotAvailable(Types, err)
    THEN IF As(err, Types, "NotAvailableError")
         THEN LET x == Head(AsTarget(err, Types, "NotAvailableError")) IN
              Because(NotAvailableError(Pm, x.Backend), x.Reason)
         ELSE ErrNotAvailable(Pm)
  ELSE IF IsExternalFailure(Types, err)
    THEN LET x == AsTarget(err, Types, "ExternalFailureError") IN
         Holding(ExternalFailureError(Pm, Head(x).Operation, Head(x).Backend, Tail(x)),
                 Head(x).Stdout, Head(x).Stderr, Head(x).Payload)
  ELSE err

\* the adapter converts the error of a backend, here of any kind and wrapping
CallConvertError(kind, n) ==
  LET err == Wrapped(Internal(kind), n) IN
  /\ Uncalled
  /\ last' = [op |-> "convertError", kind |-> kind, layers |-> n, err |-> err,
              result |-> convertError(err)]
  /\ UNCHANGED <<cfg, helpers, events, now, nextID, ret, hist, born, panicked,
                 mu, inner, threads, backend>>

\* ------------------------------------------------- operations of a backend
\* a call that fails once it has reported a message of severity Error
TookUnlessErrorReported(result, err, r) ==
  [result |-> result,
   err |-> IF \E i \in DOMAIN r.out :
                r.out[i].method = "OnMessage" /\ r.out[i].arg.Severity = SeverityError
           THEN Generic ELSE err,
   out |-> r.out, id |-> r.id]

\* what one call returns and reports
Took(result, err, r) == [result |-> result, err |-> err, out |-> r.out, id |-> r.id]

\* the test at the top of every command-running operation: no runner, not supported
NoRunner(b) == b.runner = Nil

\* an operation without a runner that does nothing and succeeds
NoOpSuccess(operation, b) == NilErr

\* return <zero>, types.ErrNotSupported
NotSupported(operation, b) == ErrNotSupported(Types)

UpdateOutcome(b, progress, run) ==
  IF NoRunner(b) THEN Took(ZeroUpdateResult, NotSupported(OperationUpdateMetadata, b), Silent)
  ELSE LET ans == RunWithExternalError(run, OperationUpdateMetadata, b.kind)
           r == Reported(HelperOf(b, progress), "Update", ans.err # NilErr) IN
       IF ans.err # NilErr THEN Took(ZeroUpdateResult, ans.err, r)
       ELSE Took([ZeroUpdateResult EXCEPT !.Changed = UpdateChanged(b.kind, ans.stdout)],
                 NilErr, r)

UpgradeOutcome(b, progress, run) ==
  IF NoRunner(b) THEN Took(ZeroUpgradeResult, NotSupported(OperationUpgradePackages, b), Silent)
  ELSE LET ans == RunWithExternalError(run, OperationUpgradePackages, b.kind)
           r == Reported(HelperOf(b, progress), "Upgrade", ans.err # NilErr) IN
       IF ans.err # NilErr THEN Took(ZeroUpgradeResult, ans.err, r)
       ELSE Took(UpgradeParse(b.kind, ans.stdout), NilErr, r)

InstallOutcome(b, pkgs, progress, run) ==
  IF NoRunner(b) THEN Took(ZeroInstallResult, NotSupported(OperationInstall, b), Silent)
  ELSE IF Len(pkgs) = 0 THEN Took(ZeroInstallResult, NilErr, Silent)
  ELSE LET ans == RunWithExternalError(run, OperationInstall, b.kind)
           r == Reported(HelperOf(b, progress), "Install", ans.err # NilErr) IN
       IF ans.err # NilErr THEN Took(ZeroInstallResult, ans.err, r)
       ELSE LET parsed == ChangeParse(b.kind, OperationInstall, ans.stdout, pkgs) IN
            Took([Changed |-> parsed.changed, PackagesInstalled |-> parsed.named,
                  Messages |-> <<>>], NilErr, r)

UninstallOutcome(b, pkgs, progress, run) ==
  IF NoRunner(b) THEN Took(ZeroUninstallResult, NotSupported(OperationUninstall, b), Silent)
  ELSE IF Len(pkgs) = 0 THEN Took(ZeroUninstallResult, NilErr, Silent)
  ELSE LET ans == RunWithExternalError(run, OperationUninstall, b.kind)
           r == Reported(HelperOf(b, progress), "Uninstall", ans.err # NilErr) IN
       IF ans.err # NilErr THEN Took(ZeroUninstallResult, ans.err, r)
       ELSE LET parsed == ChangeParse(b.kind, OperationUninstall, ans.stdout, pkgs) IN
            Took([Changed |-> parsed.changed, PackagesUninstalled |-> parsed.named,
                  Messages |-> <<>>], NilErr, r)

\* a nil slice, an empty slice, and the slice parsed from an output (the fields
\* the parsers of Search and ListInstalled pick are not modelled)
NilSlice == [slice |-> "nil"]
EmptySlice == [slice |-> "empty"]
ParsedFrom(stdout) == [slice |-> "parsed", from |-> stdout]

\* Search: brew asks the Formulae API whether or not it has a runner and reports
\* an empty query; flatpak and snap need the runner and return at once on an
\* empty query. `run` is the answer of the API or of the command.
SearchOutcome(b, query, progress, run) ==
  IF b.kind = "brew"
  THEN IF query = ""
       THEN Took(EmptySlice, NilErr,
                 ThenEndAction(ThenMessage(ThenBeginAction(HelperOf(b, progress), "Search"),
                                           SeverityInfo, "Empty search query")))
       ELSE LET ans == RunWithExternalError(run, OperationSearch, b.kind)
                r == Reported(HelperOf(b, progress), "Search", ans.err # NilErr) IN
            IF ans.err # NilErr THEN Took(NilSlice, ans.err, r)
            ELSE Took(ParsedFrom(ans.stdout), NilErr, r)
  ELSE IF NoRunner(b) THEN Took(NilSlice, NotSupported(OperationSearch, b), Silent)
  ELSE IF query = "" THEN Took(EmptySlice, NilErr, Silent)
  ELSE LET ans == RunWithExternalError(run, OperationSearch, b.kind)
           r == Reported(HelperOf(b, progress), "Search", ans.err # NilErr) IN
       IF ans.err # NilErr THEN Took(NilSlice, ans.err, r)
       ELSE Took(ParsedFrom(ans.stdout), NilErr, r)

ListInstalledOutcome(b, progress, run) ==
  IF NoRunner(b) THEN Took(NilSlice, NotSupported(OperationListInstalled, b), Silent)
  ELSE LET ans == RunWithExternalError(run, OperationListInstalled, b.kind)
           r == Reported(HelperOf(b, progress), "ListInstalled", ans.err # NilErr) IN
       IF ans.err # NilErr THEN Took(NilSlice, ans.err, r)
       ELSE Took(ParsedFrom(ans.stdout), NilErr, r)

\* what the probe of Available meets: brew and snap make an HTTP request (it
\* cannot be built, it gets no response, or it gets a status), flatpak runs
\* `flatpak --version`
StatusCodes == {199, 200, 204, 299, 300, 404}
Probes(b) ==
  IF b.kind = "flatpak"
  THEN {[run |-> a] : a \in RunAnswers("version")}
  ELSE {[fail |-> "request"], [fail |-> "transport"]} \cup {[status |-> c] : c \in StatusCodes}

\* len(stdout) > 0
NonEmpty(stdout) == Len(stdout) > 1 \/ stdout[1] # EmptyLine

\* an Available that takes every response for success
AvailableOnAnyStatus(b, probe) ==
  IF b.kind = "flatpak"
  THEN [ok |-> probe.run.err = NilErr, err |-> NilErr]
  ELSE IF "fail" \in DOMAIN probe
       THEN [ok |-> FALSE, err |-> NotAvailableError(Types, b.kind)]
       ELSE [ok |-> TRUE, err |-> NilErr]

AvailableOutcome(b, probe) ==
  IF b.kind = "flatpak"
  THEN IF NoRunner(b) THEN [ok |-> FALSE, err |-> NotAvailableError(Types, b.kind)]
       ELSE IF probe.run.err # NilErr
         THEN [ok |-> FALSE, err |-> NotAvailableError(Types, b.kind)]
       ELSE IF NonEmpty(probe.run.stdout) THEN [ok |-> TRUE, err |-> NilErr]
       ELSE [ok |-> FALSE, err |-> NotAvailableError(Types, b.kind)]
  ELSE IF "fail" \in DOMAIN probe
         THEN [ok |-> FALSE, err |-> NotAvailableError(Types, b.kind)]
       ELSE IF probe.status >= 200 /\ probe.status < 300 THEN [ok |-> TRUE, err |-> NilErr]
       ELSE [ok |-> FALSE, err |-> NotAvailableError(Types, b.kind)]

\* a call on the backend returns: the call and what it gave are `last`, the
\* identifiers it drew are used up. Nothing else of the program changes.
Called(method, operation, input, progress, took) ==
  /\ backend # NoBackend
  /\ Uncalled
  /\ took.id <= cfg.limit
  /\ last' = [op |-> method, operation |-> operation, backend |-> backend,
              input |-> input, progress |-> progress,
              result |-> took.result, err |-> took.err, public |-> convertError(took.err),
              out |-> took.out]
  /\ nextID' = took.id
  /\ UNCHANGED <<cfg, helpers, events, now, ret, hist, born, panicked, mu, inner, threads,
                 backend>>

Available(probe) ==
  /\ backend # NoBackend
  /\ probe \in Probes(backend)
  /\ LET a == AvailableOutcome(backend, probe) IN
     Called("Available", "none", probe, Nil,
             [result |-> a.ok, err |-> a.err, out |-> <<>>, id |-> nextID])

Capabilities ==
  Called("Capabilities", "none", <<>>, Nil,
          [result |-> CapabilitiesOf(backend), err |-> NilErr, out |-> <<>>, id |-> nextID])

Update(progress, run) ==
  Called("Update", OperationUpdateMetadata, [run |-> run], progress,
          UpdateOutcome(backend, progress, run))

Upgrade(progress, run) ==
  Called("Upgrade", OperationUpgradePackages, [run |-> run], progress,
          UpgradeOutcome(backend, progress, run))

Install(pkgs, progress, run) ==
  Called("Install", OperationInstall, [run |-> run, pkgs |-> pkgs], progress,
          InstallOutcome(backend, pkgs, progress, run))

Uninstall(pkgs, progress, run) ==
  Called("Uninstall", OperationUninstall, [run |-> run, pkgs |-> pkgs], progress,
          UninstallOutcome(backend, pkgs, progress, run))

Search(query, progress, run) ==
  Called("Search", OperationSearch, [run |-> run, query |-> query], progress,
          SearchOutcome(backend, query, progress, run))

ListInstalled(progress, run) ==
  Called("ListInstalled", OperationListInstalled, [run |-> run], progress,
          ListInstalledOutcome(backend, progress, run))

\* ------------------------------------------------------------ Spec
InitWith(c, ids) ==
  /\ cfg = c
  /\ helpers = [h \in ids |-> FreshHelper]
  /\ events = <<>>
  /\ now = 1
  /\ nextID = 1
  /\ ret = [helper |-> 0, op |-> "none", val |-> NoID, at |-> 0]
  /\ hist = [h \in ids |-> FreshHist]
  /\ born = <<>>
  /\ panicked = FALSE
  /\ mu = Free
  /\ inner = [count |-> [m \in Methods |-> 0], active |-> {}, got |-> [g \in ids |-> <<>>]]
  /\ threads = [g \in ids |-> FreshThread]
  /\ backend = NoBackend
  /\ last = NoCallYet

\* one helper of package progress
Init == InitWith([impl |-> ImplProgress, limit |-> MaxLog, maxTime |-> MaxTime, nestedOnly |-> FALSE], {1})

\* helpers are constructed in the order of their numbers (they are interchangeable)
NextHelper == {h \in HelperIds : \A k \in HelperIds : k < h => helpers[k].created}

Next ==
  \/ \E h \in NextHelper, d \in DefaultReporters, o \in OverrideReporters :
       NewProgressHelper(h, d, o)
  \/ \E h \in HelperIds, n \in Names : BeginAction(h, n)
  \/ \E h \in HelperIds : EndAction(h)
  \/ \E h \in HelperIds, n \in Names : BeginTask(h, n)
  \/ \E h \in HelperIds : EndTask(h)
  \/ \E h \in HelperIds, n \in Names : BeginStep(h, n)
  \/ \E h \in HelperIds : EndStep(h)
  \/ \E h \in HelperIds, x \in Texts : Info(h, x)
  \/ \E h \in HelperIds, x \in Texts : Warning(h, x)
  \/ \E h \in HelperIds, x \in Texts : Error(h, x)

Spec == Init /\ [][Next]_vars

\* the same calls on one helper of package internal/types
InitTypes == InitWith([impl |-> ImplTypes, limit |-> MaxLog, maxTime |-> MaxTime, nestedOnly |-> FALSE], {1})
SpecTypes == InitTypes /\ [][Next]_vars

\* properly nested calls only, on one helper of package progress: a Begin is made
\* only while its own and every deeper level is closed, an End that closes an
\* entity only while every deeper level is closed. The whole run falls within
\* one reading of the clock (the order of deliveries does not depend on it).
InitNested == InitWith([impl |-> ImplProgress, limit |-> MaxNestLog, maxTime |-> 1,
                        nestedOnly |-> TRUE], {1})
SpecNested == InitNested /\ [][Next]_vars

\* several helpers of package progress in one process, sharing uuid and the
\* reporters, within one reading of the clock
InitIDs == InitWith([impl |-> ImplProgress, limit |-> MaxIDLog, maxTime |-> 1,
                     nestedOnly |-> FALSE], 1..MaxHelpers)
SpecIDs == InitIDs /\ [][Next]_vars

\* a mock reporter wrapped by MakeThreadSafe and called once by each of
\* MaxCallers goroutines, with any method and any of CallArgs
InitTS == InitWith([impl |-> ImplProgress, limit |-> MaxLog, maxTime |-> 1,
                    nestedOnly |-> FALSE], 1..MaxCallers)

NextTS ==
  \/ \E g \in Goroutines, m \in Methods, a \in CallArgs : Call(g, m, a)
  \/ \E g \in Goroutines : Lock(g)
  \/ \E g \in Goroutines : InnerEnter(g)
  \/ \E g \in Goroutines : InnerReturn(g)
  \/ \E g \in Goroutines : Unlock(g)

SpecTS == InitTS /\ [][NextTS]_vars

\* the same goroutines, each calling the wrapper up to MaxCallsEach times, with
\* an inner reporter that returns or panics. Every goroutine that can take a step
\* of the wrapper or of the inner reporter takes it in the end (the scheduler
\* runs every runnable goroutine, the inner reporter's methods end); a goroutine
\* waiting in Lock gets the mutex in the end if it stays free (the calls of the
\* others being bounded, no more is asked of sync.Mutex).
NextTSFair ==
  \/ \E g \in Goroutines, m \in Methods : Call(g, m, "a")
  \/ \E g \in Goroutines : CallAgain(g)
  \/ \E g \in Goroutines : Lock(g)
  \/ \E g \in Goroutines : InnerEnter(g)
  \/ \E g \in Goroutines : InnerReturn(g)
  \/ \E g \in Goroutines : InnerPanic(g)
  \/ \E g \in Goroutines : Unlock(g)
  \/ \E g \in Goroutines : Unwind(g)

FairTS ==
  \A g \in 1..MaxCallers :
    /\ WF_vars(Lock(g))
    /\ WF_vars(InnerEnter(g))
    /\ WF_vars(InnerReturn(g) \/ InnerPanic(g))
    /\ WF_vars(Unlock(g))
    /\ WF_vars(Unwind(g))

SpecTSFair == InitTS /\ [][NextTSFair]_vars /\ FairTS

\* NumGoroutines goroutines, each with a helper of its own on one reporter made
\* by MakeThreadSafe, each running: NewProgressHelper(nil, reporter), BeginAction,
\* BeginTask, MsgsPerGoroutine times Info, EndTask, EndAction. Where a goroutine
\* is in this script is the number of its calls on the reporter that have returned.
InitConc == InitWith([impl |-> ImplProgress, limit |-> MaxLog, maxTime |-> 1,
                      nestedOnly |-> FALSE], 1..NumGoroutines)

At(g, k) == helpers[g].created /\ threads[g].returned = k

GoNewHelper(g) == NewProgressHelper(g, Nil, MakeThreadSafe(InnerReporter))
GoBeginAction(g, n) == At(g, 0) /\ BeginAction(g, n)
GoBeginTask(g, n) == At(g, 1) /\ BeginTask(g, n)
GoInfo(g, x) ==
  /\ \E j \in 0..(MsgsPerGoroutine - 1) : At(g, 2 + j)
  /\ Info(g, x)
GoEndTask(g) == At(g, 2 + MsgsPerGoroutine) /\ EndTask(g)
GoEndAction(g) == At(g, 3 + MsgsPerGoroutine) /\ EndAction(g)

NextConc ==
  \/ \E g \in Goroutines : GoNewHelper(g)
  \/ \E g \in Goroutines, n \in Names : GoBeginAction(g, n)
  \/ \E g \in Goroutines, n \in Names : GoBeginTask(g, n)
  \/ \E g \in Goroutines, x \in Texts : GoInfo(g, x)
  \/ \E g \in Goroutines : GoEndTask(g)
  \/ \E g \in Goroutines : GoEndAction(g)
  \/ \E g \in Goroutines : Lock(g)
  \/ \E g \in Goroutines : InnerEnter(g)
  \/ \E g \in Goroutines : InnerReturn(g)
  \/ \E g \in Goroutines : Unlock(g)

SpecConc == InitConc /\ [][NextConc]_vars

\* one backend at a time, called through its operations with every answer of the
\* command or service behind it, and the pure functions of package pm
InitPM == InitWith([impl |-> ImplProgress, limit |-> MaxCallIDs, maxTime |-> 1,
                    nestedOnly |-> FALSE], {1})

NextPM ==
  \/ \E kind \in Kinds, r \in Runners, d \in DefaultReporters : New(kind, r, d)
  \/ \E probe \in Probes(backend) : Available(probe)
  \/ Capabilities
  \/ \E o \in OverrideReporters, run \in RunAnswers(OperationUpdateMetadata) : Update(o, run)
  \/ \E o \in OverrideReporters, run \in RunAnswers(OperationUpgradePackages) : Upgrade(o, run)
  \/ \E pkgs \in PkgLists, o \in OverrideReporters, run \in RunAnswers(OperationInstall) :
       Install(pkgs, o, run)
  \/ \E pkgs \in PkgLists, o \in OverrideReporters, run \in RunAnswers(OperationUninstall) :
       Uninstall(pkgs, o, run)
  \/ \E q \in Queries, o \in OverrideReporters, run \in RunAnswers(OperationSearch) :
       Search(q, o, run)
  \/ \E o \in OverrideReporters, run \in RunAnswers(OperationListInstalled) :
       ListInstalled(o, run)
  \/ \E run \in LongAnswers, operation \in {OperationInstall, OperationUpgradePackages} :
       CallRunWithExternalError(run, operation, "test-backend")
  \/ \E kind \in ErrorKinds, n \in 0..MaxWrap : Classify(kind, n)
  \/ \E kind \in ErrorKinds, n \in 0..MaxWrap : CallConvertError(kind, n)
  \/ \E caps \in CapLists, op \in {OperationSearch, OperationInstall, OperationUninstall} :
       CallSupports(caps, op)
  \/ \E caps \in CapLists, op \in {OperationSearch, OperationInstall, OperationUninstall} :
       CallGetCapability(caps, op)

SpecPM == InitPM /\ [][NextPM]_vars

\* ================================================================ claims
EventIdx == 1..Len(events)
IsEntity(e) == e.method \in {"OnAction", "OnTask", "OnStep"}
IsBeginEvent(e) == IsEntity(e) /\ e.arg.EndedAt = ZeroTime
IsEndEvent(e) == IsEntity(e) /\ e.arg.EndedAt # ZeroTime
AllNil(hs) == hs.currentAction.isNil /\ hs.currentTask.isNil /\ hs.currentStep.isNil

\* C1: cascading close. Right after an EndAction that closed an open Action (its
\* end event is the last delivery), the helper holds no current Action, Task or
\* Step; right after an EndTask that closed an open Task it holds no current Task
\* or Step. (So a message sent next carries no identifiers, a BeginStep gets an
\* empty TaskID and an EndTask/EndStep finds nothing to end.)
C1_CascadingClose ==
  events # <<>> =>
    LET e == events[Len(events)]
        hs == helpers[e.from] IN
    /\ (e.via = "EndAction" => AllNil(hs))
    /\ (e.via = "EndTask" => hs.currentTask.isNil /\ hs.currentStep.isNil)

\* C2: every Task event (start and end) carries the identifier of the Action that
\* was current when its BeginTask was called, or "" if none was; every Step event
\* carries the identifier of the Task current at its BeginStep, or "".
C2_ParentFixedAtBegin ==
  \A i \in EventIdx :
    LET e == events[i] IN
    /\ e.method = "OnTask" =>
         \E k \in DOMAIN born :
           /\ born[k].id = e.arg.ID /\ born[k].level = "task"
           /\ e.arg.ActionID = born[k].parent
    /\ e.method = "OnStep" =>
         \E k \in DOMAIN born :
           /\ born[k].id = e.arg.ID /\ born[k].level = "step"
           /\ e.arg.TaskID = born[k].parent

\* a Task that began under an open Action has been ended, and so has a Step that
\* began under an open Task or an orphaned one
C2_Witness ==
  /\ \E i \in EventIdx : events[i].method = "OnTask" /\ IsEndEvent(events[i])
                         /\ events[i].arg.ActionID # NoID
  /\ \E i \in EventIdx : events[i].method = "OnStep" /\ IsBeginEvent(events[i])

\* C4: a message sent by Info, Warning or Error carries the severity of the method
\* called and, per level, the identifier of the Action/Task/Step current at that
\* moment, or "" where nothing is current. (A message call leaves the helper as it
\* was, and every call that changes the helper makes a delivery, so while the
\* message is the last delivery the helper is as it was when the message was sent.)
C4_MessageCarriesCurrent ==
  /\ \A i \in EventIdx :
       LET e == events[i] IN
       e.method = "OnMessage" =>
         /\ e.via = "Info" => e.arg.Severity = "Informational"
         /\ e.via = "Warning" => e.arg.Severity = "Warning"
         /\ e.via = "Error" => e.arg.Severity = "Error"
         /\ e.via \in {"Info", "Warning", "Error"}
  /\ events # <<>> /\ events[Len(events)].method = "OnMessage" =>
       LET e == events[Len(events)]
           hs == helpers[e.from] IN
       /\ e.arg.ActionID = (IF hs.currentAction.isNil THEN NoID ELSE hs.currentAction.val.ID)
       /\ e.arg.TaskID = (IF hs.currentTask.isNil THEN NoID ELSE hs.currentTask.val.ID)
       /\ e.arg.StepID = (IF hs.currentStep.isNil THEN NoID ELSE hs.currentStep.val.ID)

\* a Warning sent while a Task and a Step are current and no Action is
C4_Witness ==
  /\ events # <<>>
  /\ LET e == events[Len(events)] IN
     /\ e.method = "OnMessage" /\ e.via = "Warning"
     /\ e.arg.ActionID = NoID /\ e.arg.TaskID # NoID /\ e.arg.StepID # NoID

\* the deliveries made for the entity with identifier x
DeliveriesOf(x) == {i \in EventIdx : IsEntity(events[i]) /\ events[i].arg.ID = x}

\* the reporter received exactly two events for x: the value at its start and the
\* same value with the end time stamped
TwoEvents(x) ==
  \E i, j \in EventIdx :
    /\ i < j
    /\ DeliveriesOf(x) = {i, j}
    /\ events[i].method = events[j].method
    /\ events[i].arg.EndedAt = ZeroTime
    /\ events[j].arg.EndedAt # ZeroTime
    /\ events[j].arg.EndedAt >= events[j].arg.StartedAt
    /\ events[j].arg = [events[i].arg EXCEPT !.EndedAt = events[j].arg.EndedAt]

\* C5 (as stated): for every Begin*/End* pair on one level with no other Begin at
\* that level in between, the reporter receives exactly two events for the entity,
\* the second equal to the first but for a non-zero EndedAt >= StartedAt.
C5_TwoEventsPerPair ==
  \A h \in HelperIds : \A x \in hist[h].paired : TwoEvents(x)

\* C5 (amended): the same, for pairs with, in between, no other Begin at that level
\* and no End of an enclosing level that closed an open entity.
C5_TwoEventsPerUnbrokenPair ==
  \A h \in HelperIds : \A x \in hist[h].pairedClean : TwoEvents(x)

\* a Step was begun and ended under a Task that is still open
C5_Witness ==
  \E h \in HelperIds : \E x \in hist[h].pairedClean :
    /\ \E i \in DeliveriesOf(x) : events[i].method = "OnStep" /\ events[i].arg.TaskID # NoID
    /\ ~helpers[h].currentTask.isNil

\* C7: the helper delivers every event to the override reporter when one was given
\* (and none to the default); otherwise to the default reporter when one was given;
\* the reporter it uses is fixed by the two constructor arguments.
C7_ReporterPrecedence ==
  /\ \A i \in EventIdx :
       LET e == events[i]
           hs == helpers[e.from] IN
       /\ hs.ovr # Nil => e.to = hs.ovr /\ (hs.dflt # hs.ovr => e.to # hs.dflt)
       /\ hs.ovr = Nil /\ hs.dflt # Nil => e.to = hs.dflt
  /\ \A h \in HelperIds :
       helpers[h].created =>
         helpers[h].reporter = (IF helpers[h].ovr # Nil THEN helpers[h].ovr ELSE helpers[h].dflt)

\* a helper built with both a default and an override has delivered an event
C7_Witness ==
  \E i \in EventIdx :
    /\ helpers[events[i].from].dflt # Nil
    /\ helpers[events[i].from].ovr # Nil
    /\ events[i].to = helpers[events[i].from].ovr

\* C8: a helper built with both reporters nil is inert: every Begin* returns "",
\* nothing is delivered, no Action/Task/Step becomes current, and no call panics.
C8_NilReporterInert ==
  \A h \in HelperIds :
    helpers[h].created /\ helpers[h].dflt = Nil /\ helpers[h].ovr = Nil =>
      /\ AllNil(helpers[h])
      /\ \A i \in EventIdx : events[i].from # h
      /\ ret.helper = h => ret.val = NoID /\ ret.at = 0
      /\ ~panicked

\* BeginStep was called on a helper built with both reporters nil
C8_Witness ==
  /\ ret.helper \in HelperIds
  /\ ret.op = "BeginStep"
  /\ helpers[ret.helper].created
  /\ helpers[ret.helper].dflt = Nil /\ helpers[ret.helper].ovr = Nil

\* the level of an entity event and the parent identifier it carries
LevelOf(e) == CASE e.method = "OnAction" -> "action"
                [] e.method = "OnTask" -> "task"
                [] e.method = "OnStep" -> "step"
ParentOf(e) == CASE e.method = "OnAction" -> NoID
                 [] e.method = "OnTask" -> e.arg.ActionID
                 [] e.method = "OnStep" -> e.arg.TaskID
CarriedAt(m, L) == CASE L = "action" -> m.arg.ActionID
                     [] L = "task" -> m.arg.TaskID
                     [] L = "step" -> m.arg.StepID
\* the entity begun at delivery i has had no end event before delivery k
OpenBetween(i, k) ==
  ~\E j \in EventIdx : /\ i < j /\ j < k /\ IsEndEvent(events[j])
                       /\ events[j].method = events[i].method
                       /\ events[j].arg.ID = events[i].arg.ID

\* C3: in a properly nested run of one helper the reporter receives the begin
\* event of X before every event of a child of X, and the end event of every child
\* of X before the end event of X; a message is delivered between the begin and
\* the end event of exactly the entities whose identifiers it carries.
C3_NestedOrder ==
  \A h \in HelperIds :
    hist[h].nested =>
      \A k \in EventIdx :
        LET e == events[k] IN
        e.from = h =>
          \* a child's event comes after its parent's begin event
          /\ IsEntity(e) /\ ParentOf(e) # NoID =>
               \E i \in EventIdx :
                 /\ i < k /\ IsBeginEvent(events[i]) /\ events[i].from = h
                 /\ Depth(LevelOf(events[i])) + 1 = Depth(LevelOf(e))
                 /\ events[i].arg.ID = ParentOf(e)
          \* when X ends, every child of X has already ended, after it began
          /\ IsEndEvent(e) =>
               \A i \in EventIdx :
                 ( /\ IsEntity(events[i]) /\ events[i].from = h
                   /\ Depth(LevelOf(events[i])) = Depth(LevelOf(e)) + 1
                   /\ ParentOf(events[i]) = e.arg.ID ) =>
                 /\ i < k
                 /\ \E j \in EventIdx : /\ i <= j /\ j < k /\ IsEndEvent(events[j])
                                        /\ events[j].method = events[i].method
                                        /\ events[j].arg.ID = events[i].arg.ID
          \* a message carries X's identifier iff X has begun and not ended
          /\ e.method = "OnMessage" =>
               \A L \in Levels :
                 /\ CarriedAt(e, L) # NoID =>
                      \E i \in EventIdx :
                        /\ i < k /\ IsBeginEvent(events[i]) /\ events[i].from = h
                        /\ LevelOf(events[i]) = L
                        /\ events[i].arg.ID = CarriedAt(e, L)
                        /\ OpenBetween(i, k)
                 /\ \A i \in EventIdx :
                      ( /\ i < k /\ IsBeginEvent(events[i]) /\ events[i].from = h
                        /\ LevelOf(events[i]) = L /\ OpenBetween(i, k) ) =>
                      CarriedAt(e, L) = events[i].arg.ID

\* an Action has ended in a properly nested run, after a Task in it began, had a
\* message sent inside it and ended
C3_Witness ==
  /\ events # <<>>
  /\ events[Len(events)].via = "EndAction"
  /\ hist[events[Len(events)].from].nested
  /\ \E k, j \in EventIdx :
       /\ k < j
       /\ events[k].method = "OnMessage"
       /\ events[k].arg.ActionID = events[Len(events)].arg.ID
       /\ events[k].arg.TaskID # NoID
       /\ events[j].via = "EndTask"
       /\ events[j].arg.ID = events[k].arg.TaskID

\* C6: with an active reporter every Begin* returns a non-empty identifier, which
\* is the ID of the begin event that call delivered, and no two Begin* calls of the
\* process (any level, any helper) return the same identifier.
C6_FreshIdentifiers ==
  /\ ( /\ ret.op \in {"BeginAction", "BeginTask", "BeginStep"}
       /\ helpers[ret.helper].reporter # Nil ) =>
       /\ ret.val # NoID
       /\ ret.at \in EventIdx
       /\ LET e == events[ret.at] IN
          /\ e.from = ret.helper /\ e.via = ret.op /\ e.to = helpers[ret.helper].reporter
          /\ IsBeginEvent(e)
          /\ e.arg.ID = ret.val
       /\ born # <<>> /\ born[Len(born)].id = ret.val
  /\ \A i, j \in DOMAIN born : i # j => born[i].id # born[j].id

\* two helpers have each returned an identifier, on different levels
C6_Witness ==
  /\ ret.at # 0
  /\ \E i, j \in DOMAIN born :
       /\ born[i].helper # born[j].helper
       /\ born[i].level # born[j].level

\* calls of method m the inner reporter has received, from all goroutines
Received(m) ==
  Cardinality(UNION {{<<g, i>> : i \in {j \in DOMAIN inner.got[g] : inner.got[g][j].method = m}} :
                     g \in Goroutines})

\* every call made on the wrapper has reached the inner reporter unchanged, in
\* the caller's order, except a last one still on its way in
ReceivedAsCalled(g) ==
  LET c == threads[g].calls
      r == inner.got[g] IN
  /\ Len(r) = IF threads[g].pc \in {"lock", "dispatch"} THEN Len(c) - 1 ELSE Len(c)
  /\ \A i \in DOMAIN r : r[i] = c[i]

\* every goroutine of SpecConc has run its script to the end
AllDone == \A g \in Goroutines : At(g, MsgsPerGoroutine + 4) /\ Idle(g)

\* C9: when the N goroutines, each with its own helper on the one reporter
\* made thread-safe, have all run BeginAction, BeginTask, M times Info, EndTask,
\* EndAction, the reporter has counted exactly N*M messages, 2N action events and
\* 2N task events (and no step event), whatever the interleaving was; what it
\* received from each helper is exactly what that helper emitted, in that order:
\* the start of an Action, the start of a Task in it, M messages carrying both
\* identifiers, the end of that Task, the end of that Action. At every moment
\* before, what it has received from a helper is what the helper has emitted so
\* far, in order, less a call that is still on its way in.
C9_ConcurrentHelpers ==
  LET N == Cardinality(Goroutines)
      M == MsgsPerGoroutine IN
  /\ \A g \in Goroutines : ReceivedAsCalled(g)
  /\ AllDone =>
       /\ inner.count["OnMessage"] = N * M
       /\ inner.count["OnAction"] = 2 * N
       /\ inner.count["OnTask"] = 2 * N
       /\ inner.count["OnStep"] = 0
       /\ \A m \in Methods : Received(m) = inner.count[m]
       /\ \A g \in Goroutines :
            LET r == inner.got[g] IN
            /\ r = threads[g].calls
            /\ Len(r) = M + 4
            /\ r[1].method = "OnAction" /\ r[1].arg.EndedAt = ZeroTime
            /\ r[2].method = "OnTask" /\ r[2].arg.EndedAt = ZeroTime
            /\ r[2].arg.ActionID = r[1].arg.ID
            /\ \A j \in 3..(M + 2) :
                 /\ r[j].method = "OnMessage"
                 /\ r[j].arg.ActionID = r[1].arg.ID
                 /\ r[j].arg.TaskID = r[2].arg.ID
            /\ r[M + 3].method = "OnTask" /\ r[M + 3].arg.EndedAt # ZeroTime
            /\ r[M + 3].arg.ID = r[2].arg.ID
            /\ r[M + 4].method = "OnAction" /\ r[M + 4].arg.EndedAt # ZeroTime
            /\ r[M + 4].arg.ID = r[1].arg.ID

\* all goroutines are done, and they ran interleaved: the second goroutine began
\* its Action between the first one's BeginAction and BeginTask
C9_Witness ==
  /\ AllDone
  /\ Len(born) >= 3
  /\ born[1].helper = 1 /\ born[2].helper = 2 /\ born[3].helper = 1

\* C10: with the reporter MakeThreadSafe(p) made of a non-nil p, at no moment is
\* more than one goroutine inside a method of p; every call on the wrapper that
\* has got past the mutex has made exactly one call on p, of the same method with
\* the same argument; so a counter that p increments without synchronization
\* equals, whenever nobody is inside p, the number of calls p received, and is K
\* once K concurrent calls have returned.
C10_ThreadSafeWrapper ==
  /\ Cardinality(inner.active) <= 1
  /\ \A g \in Goroutines : ReceivedAsCalled(g)
  /\ inner.active = {} => \A m \in Methods : inner.count[m] = Received(m)
  /\ (\A g \in Goroutines : threads[g].returned = 1) =>
       inner.count["OnAction"] + inner.count["OnTask"] + inner.count["OnStep"]
         + inner.count["OnMessage"] = Cardinality(Goroutines)

\* every goroutine's call has returned and two of them were calls of the same
\* method of the wrapper, counted by the same counter of p
C10_Witness ==
  /\ \A g \in Goroutines : threads[g].returned = 1
  /\ \E m \in Methods : inner.count[m] >= 2

\* ------------------------------------------------ claims about the backends
\* the last call was `method` on a backend of that kind and it returned a nil error
Succeeded(method) == last.op = method /\ last.err = NilErr

\* C11: for every successful Upgrade (nil error) of brew, flatpak and snap and
\* every command output, the returned UpgradeResult has Changed = true if and
\* only if PackagesChanged is non-empty.
C11_ChangedIffPackagesChanged ==
  Succeeded("Upgrade") =>
    (last.result.Changed <=> last.result.PackagesChanged # <<>>)

\* C12: for every successful Install and Uninstall (nil error) of every backend,
\* every command output and every package list, Changed = true implies that
\* PackagesInstalled / PackagesUninstalled is non-empty and Changed = false that
\* it is empty.
C12_ChangedItemsAgree ==
  /\ Succeeded("Install") =>
       (last.result.Changed <=> last.result.PackagesInstalled # <<>>)
  /\ Succeeded("Uninstall") =>
       (last.result.Changed <=> last.result.PackagesUninstalled # <<>>)

\* flatpak installed two packages and the only confirming line named neither:
\* the result lists both
C12_Witness ==
  /\ Succeeded("Install")
  /\ last.backend.kind = "flatpak"
  /\ last.input.run.stdout = << <<"Installing">> >>
  /\ Len(last.input.pkgs) = 2
  /\ last.result.Changed
  /\ last.result.PackagesInstalled = last.input.pkgs

\* the last call was an operation of a backend whose entry in the list that
\* Capabilities returns for that same instance has Supported = false
CalledUnsupported ==
  /\ last.op \in {"Update", "Upgrade", "Install", "Uninstall", "Search", "ListInstalled"}
  /\ \E i \in DOMAIN CapabilitiesOf(last.backend) :
       /\ CapabilitiesOf(last.backend)[i].Operation = last.operation
       /\ ~CapabilitiesOf(last.backend)[i].Supported

\* C13: for every backend instance and every operation whose entry in the list
\* returned by Capabilities has Supported = false, invoking that operation on
\* the same instance, with any arguments, returns an error for which
\* IsNotSupported is true (the one of internal/types for the backend's error,
\* the one of pm for the error the adapter returns).
C13_CapabilityConsistency ==
  CalledUnsupported =>
    /\ IsNotSupported(Types, last.err)
    /\ IsNotSupported(Pm, last.public)

\* a flatpak backend without a runner was asked to search for "foo"
C13_Witness ==
  /\ CalledUnsupported
  /\ last.op = "Search"
  /\ last.backend.kind = "flatpak"
  /\ last.input.query = "foo"
  /\ IsNotSupported(Pm, last.public)

\* C14: IsNotSupported, IsNotAvailable and IsExternalFailure each return false
\* for a nil error and for an unrelated generic error, and true for the bare
\* sentinel of their kind (where there is one) and for the decorated struct of
\* their kind, also when that error is wrapped in a layer that supports Unwrap.
C14_PredicatesCompose ==
  last.op = "Classify" =>
    /\ last.kind \in {"nil", "generic"} =>
         ~last.isNotSupported /\ ~last.isNotAvailable /\ ~last.isExternalFailure
    /\ last.kind \in {"ErrNotSupported", "NotSupportedError"} => last.isNotSupported
    /\ last.kind \in {"ErrNotAvailable", "NotAvailableError"} => last.isNotAvailable
    /\ last.kind \in {"ExternalFailureError", "ExternalFailureError(Err)"} =>
         last.isExternalFailure

\* a NotSupportedError inside a layer of fmt.Errorf("%w") was classified
C14_Witness ==
  /\ last.op = "Classify"
  /\ last.kind = "NotSupportedError"
  /\ last.layers >= 1
  /\ Head(last.err).type = "wrapError"
  /\ last.isNotSupported

\* the last call was an operation of a backend
CalledOperation ==
  last.op \in {"Update", "Upgrade", "Install", "Uninstall", "Search", "ListInstalled"}

\* the error is a NotSupportedError of that package that names the operation
\* that was invoked and the backend
NamesOperation(pkg, err) ==
  /\ err # NilErr
  /\ Head(err).type = "NotSupportedError" /\ Head(err).pkg = pkg
  /\ Head(err).Operation = last.operation
  /\ Head(err).Backend = last.backend.kind

\* C15: whenever an operation of a backend signals that it is not supported,
\* the error it returns, and the one the public adapter returns, is a
\* NotSupportedError with Operation and Backend set for the operation that was
\* invoked; IsNotSupported is true of it and IsNotAvailable false.
C15_NotSupportedCarriesContext ==
  (CalledOperation /\ IsNotSupported(Types, last.err)) =>
    /\ NamesOperation(Types, last.err)
    /\ NamesOperation(Pm, last.public)
    /\ IsNotSupported(Pm, last.public)
    /\ ~IsNotAvailable(Pm, last.public)

\* what the operation of the last call gives on backend b with the reporter
\* `progress` in its options and the same arguments and command outcome
OutcomeOf(b, progress) ==
  CASE last.op = "Update" -> UpdateOutcome(b, progress, last.input.run)
    [] last.op = "Upgrade" -> UpgradeOutcome(b, progress, last.input.run)
    [] last.op = "Install" -> InstallOutcome(b, last.input.pkgs, progress, last.input.run)
    [] last.op = "Uninstall" -> UninstallOutcome(b, last.input.pkgs, progress, last.input.run)
    [] last.op = "Search" -> SearchOutcome(b, last.input.query, progress, last.input.run)
    [] last.op = "ListInstalled" -> ListInstalledOutcome(b, progress, last.input.run)

\* C16: progress reporting never influences the outcome of an operation: for
\* every operation of a backend and every outcome of the command, the result
\* and the error are the ones the same call gives with no reporter at all,
\* whichever default and override reporter there are and whatever was emitted;
\* and an operation whose command succeeded returns a nil error whatever
\* messages it emitted.
C16_ProgressDoesNotDecide ==
  CalledOperation =>
    /\ \A d \in DefaultReporters, o \in OverrideReporters :
         LET other == OutcomeOf([last.backend EXCEPT !.progress = d], o) IN
         other.result = last.result /\ other.err = last.err
    /\ (last.input.run.err = NilErr /\ ~IsNotSupported(Types, last.err)) => last.err = NilErr

\* brew, with a default reporter and an override, updated successfully and
\* reported it; the same command failing is reported as an Error message
C16_Witness ==
  /\ last.op = "Update"
  /\ last.backend = [kind |-> "brew", runner |-> "runner", progress |-> "R1"]
  /\ last.progress = "R2"
  /\ last.input.run.err = NilErr
  /\ last.err = NilErr /\ last.result.Changed
  /\ \E i \in DOMAIN last.out : last.out[i].method = "OnMessage"
  /\ LET failed == UpdateOutcome(last.backend, last.progress,
                                 [stdout |-> <<EmptyLine>>, stderr |-> NoStderr,
                                  err |-> ExitError]) IN
     /\ failed.err # NilErr
     /\ \E i \in DOMAIN failed.out :
          failed.out[i].method = "OnMessage" /\ failed.out[i].arg.Severity = SeverityError

\* the changed-items list of the result of the last call (Update has none)
ChangedItems ==
  CASE last.op = "Update" -> <<>>
    [] last.op = "Upgrade" -> last.result.PackagesChanged
    [] last.op = "Install" -> last.result.PackagesInstalled
    [] last.op = "Uninstall" -> last.result.PackagesUninstalled

\* C17: whenever Update, Upgrade, Install or Uninstall of a backend returns a
\* non-nil error (not supported, or the command failed), the result returned
\* with it is the zero value, Changed = false and no changed items, also
\* through the adapter; and an operation the backend cannot run (no runner)
\* returns the NotSupported error, never a success.
C17_ZeroResultOnError ==
  last.op \in {"Update", "Upgrade", "Install", "Uninstall"} =>
    /\ last.err # NilErr =>
         ~last.result.Changed /\ ChangedItems = <<>> /\ last.result.Messages = <<>>
    /\ last.public # NilErr <=> last.err # NilErr
    /\ NoRunner(last.backend) => IsNotSupported(Types, last.err)

\* `brew upgrade` printed that it upgraded foo and then failed: the error is an
\* ExternalFailureError and the result names no package
C17_Witness ==
  /\ last.op = "Upgrade"
  /\ last.backend.kind = "brew"
  /\ last.input.run.stdout = << <<"==>", "Upgrading", "foo">> >>
  /\ last.input.run.err = ExitError
  /\ IsExternalFailure(Pm, last.public)
  /\ last.result = ZeroUpgradeResult

\* C18: for every backend and every outcome of the availability probe,
\* Available returns either (true, nil) or (false, err) with IsNotAvailable(err)
\* true, never true with an error, never false with a nil error, and never a
\* generic or ExternalFailure error for a tool that cannot be reached.
C18_AvailableOrNotAvailable ==
  last.op = "Available" =>
    \/ last.result = TRUE /\ last.err = NilErr /\ last.public = NilErr
    \/ /\ last.result = FALSE
       /\ IsNotAvailable(Types, last.err) /\ IsNotAvailable(Pm, last.public)
       /\ ~IsExternalFailure(Types, last.err) /\ ~IsExternalFailure(Pm, last.public)
       /\ Head(last.public).type = "NotAvailableError"
       /\ Head(last.public).Backend = last.backend.kind

\* the daemon of snap answered the probe with status 300: not available
C18_Witness ==
  /\ last.op = "Available"
  /\ last.backend.kind = "snap"
  /\ last.input = [status |-> 300]
  /\ last.result = FALSE
  /\ IsNotAvailable(Pm, last.public)

\* the last call got as far as its progress reporting: it did not return at the
\* check for a runner, for an empty package list or for an empty query
ReportsProgress ==
  /\ CalledOperation
  /\ ~NoRunner(last.backend) \/ (last.backend.kind = "brew" /\ last.op = "Search")
  /\ last.op \in {"Install", "Uninstall"} => last.input.pkgs # <<>>
  /\ (last.op = "Search" /\ last.backend.kind # "brew") => last.input.query # ""

\* C19: for every backend constructed with a default reporter D and every
\* operation that reports progress: when the options of the call carry no
\* reporter the events of the operation are delivered to D, and when they carry
\* a reporter R the events are delivered to R and none to D.
C19_DefaultThenOverride ==
  (ReportsProgress /\ last.backend.progress # Nil) =>
    /\ last.out # <<>>
    /\ \A i \in DOMAIN last.out :
         last.out[i].to = IF last.progress = Nil THEN last.backend.progress
                          ELSE last.progress

\* C20: for every capability list caps and operation op, Supports(caps, op) is
\* true if and only if caps has an entry whose Operation is op and whose
\* Supported flag is true: it is false when op is absent from caps and when op
\* is present only in entries marked unsupported; it returns a bool and nothing
\* else.
C20_SupportsIffSupportedEntry ==
  last.op = "Supports" =>
    /\ last.result \in BOOLEAN
    /\ last.result <=>
         \E i \in DOMAIN last.caps :
           last.caps[i].Operation = last.asked /\ last.caps[i].Supported

\* Supports was asked about Install with a list that has Install as unsupported
\* and Search as supported, and said no
C20_Witness ==
  /\ last.op = "Supports"
  /\ last.asked = OperationInstall
  /\ last.caps = <<Capability(OperationInstall, FALSE), Capability(OperationSearch, TRUE)>>
  /\ last.result = FALSE

\* C21: for every capability list caps and operation op, GetCapability(caps,
\* op) returns an entry of caps whose Operation is op, with the Supported flag
\* and the Notes of that entry, when there is such an entry, and nil when there
\* is none; it never returns an entry for another operation.
C21_GetCapabilityFindsEntry ==
  last.op = "GetCapability" =>
    IF \E i \in DOMAIN last.caps : last.caps[i].Operation = last.asked
    THEN /\ ~last.result.isNil
         /\ last.result.at \in DOMAIN last.caps
         /\ last.result.val = last.caps[last.result.at]
         /\ last.result.val.Operation = last.asked
    ELSE last.result.isNil

\* the list of TestGetCapability was asked about Install and gave the entry
\* marked unsupported with its notes
C21_Witness ==
  /\ last.op = "GetCapability"
  /\ last.asked = OperationInstall
  /\ last.caps = <<Capability(OperationSearch, TRUE),
                   Noted(Capability(OperationInstall, FALSE), "not implemented")>>
  /\ ~last.result.isNil
  /\ last.result.val.Notes = "not implemented" /\ ~last.result.val.Supported

\* the captured string f is the output s as sanitize must leave it: s itself
\* when s has at most maxLen bytes, otherwise the first maxLen bytes of s and
\* then "... (truncated)"; never more than 515 bytes
Sanitized(s, f) ==
  /\ Len(s) <= maxLen => f = s
  /\ Len(s) > maxLen =>
       /\ Len(f) = maxLen + Len(Truncated)
       /\ \A i \in 1..maxLen : f[i] = s[i]
       /\ \A i \in 1..Len(Truncated) : f[maxLen + i] = Truncated[i]
  /\ Len(f) <= 515

\* the last call was RunWithExternalError on a command that failed
RunFailed == last.op = "RunWithExternalError" /\ last.run.err # NilErr

\* C22: sanitize returns its input unchanged when it has at most 500 bytes and
\* otherwise its first 500 bytes followed by "... (truncated)"; so the Stdout
\* and Stderr of every ExternalFailureError that RunWithExternalError builds
\* have at most 515 bytes, whatever the size of the output.
C22_SanitizeTruncates ==
  RunFailed =>
    /\ Sanitized(Bytes(last.run.stdout), Head(last.result.err).Stdout)
    /\ Sanitized(Bytes(last.run.stderr), Head(last.result.err).Stderr)

\* a failing command printed 1000 bytes and, on stderr, exactly 500: the error
\* holds 515 bytes of the one and all 500 of the other
C22_Witness ==
  /\ RunFailed
  /\ last.run.stdout = << <<"x*(2*maxLen)">> >>
  /\ last.run.stderr = << <<"x*maxLen">> >>
  /\ Len(Bytes(last.run.stdout)) = 1000
  /\ Len(Head(last.result.err).Stdout) = 515
  /\ Len(Head(last.result.err).Stderr) = 500

\* C23: RunWithExternalError returns the stdout and stderr of the runner
\* unchanged; with a nil error when the runner's error is nil, and otherwise with
\* an ExternalFailureError whose Operation and Backend are the arguments, whose
\* Stdout and Stderr are the sanitized outputs and whose Unwrap is the runner's
\* error.
C23_RunWithExternalError ==
  last.op = "RunWithExternalError" =>
    /\ last.result.stdout = last.run.stdout
    /\ last.result.stderr = last.run.stderr
    /\ last.run.err = NilErr => last.result.err = NilErr
    /\ last.run.err # NilErr =>
         /\ last.result.err # NilErr
         /\ Head(last.result.err).type = "ExternalFailureError"
         /\ Head(last.result.err).pkg = Types
         /\ Head(last.result.err).Operation = last.operation
         /\ Head(last.result.err).Backend = last.name
         /\ Head(last.result.err).Stdout = sanitize(Bytes(last.run.stdout))
         /\ Head(last.result.err).Stderr = sanitize(Bytes(last.run.stderr))
         /\ Tail(last.result.err) = last.run.err
         /\ IsExternalFailure(Types, last.result.err)

\* an Install command failed after printing more than the limit: the caller
\* gets all of the output back, and an error that holds less of it
C23_Witness ==
  /\ RunFailed
  /\ last.operation = OperationInstall
  /\ last.run.stdout = << <<"x*(maxLen+1)">> >>
  /\ last.result.stdout = last.run.stdout
  /\ Head(last.result.err).Stdout # Bytes(last.result.stdout)
  /\ Tail(last.result.err) = ExitError

\* C24: every UpdateResult that Update of a backend returns, on every path,
\* consists of the Changed flag and the Messages list and nothing else: no path
\* of Update returns a list of changed packages, while every UpgradeResult has
\* a PackagesChanged list.
C24_UpdateHasNoPackages ==
  /\ last.op = "Update" => DOMAIN last.result = {"Changed", "Messages"}
  /\ last.op = "Upgrade" => "PackagesChanged" \in DOMAIN last.result

\* `snap refresh --list` named a snap that can be refreshed: the result of
\* Update says Changed and names nothing
C24_Witness ==
  /\ Succeeded("Update")
  /\ last.backend.kind = "snap"
  /\ last.input.run.stdout = << <<"foo", "1.0">> >>
  /\ last.result = [Changed |-> TRUE, Messages |-> <<>>]

\* the events of the last call that begin (EndedAt zero) or end an entity
OutBegins(method) ==
  {i \in DOMAIN last.out : last.out[i].method = method /\ last.out[i].arg.EndedAt = ZeroTime}
OutEnds(method) ==
  {i \in DOMAIN last.out : last.out[i].method = method /\ last.out[i].arg.EndedAt # ZeroTime}

\* C25: for every call of a backend operation that emits the begin event of an
\* Action, the reporter has received the end event of that Action when the call
\* returns, on the success path and on the failure path; every Task the call
\* began is ended before the end event of the Action; and every message of the
\* call, the Error message of a failure included, is delivered after the begin
\* event of the Action and before its end event.
C25_ActionBracketsCall ==
  CalledOperation =>
    /\ \A i \in OutBegins("OnAction") :
         \E j \in OutEnds("OnAction") :
           /\ j > i /\ last.out[j].arg.ID = last.out[i].arg.ID
           /\ \A t \in OutBegins("OnTask") :
                t > i => \E u \in OutEnds("OnTask") :
                           u > t /\ u < j /\ last.out[u].arg.ID = last.out[t].arg.ID
           /\ \A k \in DOMAIN last.out :
                last.out[k].method = "OnMessage" =>
                  k > i /\ k < j /\ last.out[k].arg.ActionID = last.out[i].arg.ID
    /\ last.out # <<>> => OutBegins("OnAction") # {}

\* a command of flatpak failed: its reporter saw the Action begin, the Task
\* begin and end, the Error message and then the Action end
C25_Witness ==
  /\ last.op = "Update"
  /\ last.backend.kind = "flatpak"
  /\ IsExternalFailure(Types, last.err)
  /\ Len(last.out) = 5
  /\ last.out[4].method = "OnMessage" /\ last.out[4].arg.Severity = SeverityError
  /\ last.out[5].method = "OnAction" /\ last.out[5].arg.EndedAt # ZeroTime

\* the public error c keeps the kind and the fields of the internal error e
KeepsKind(e, c) ==
  /\ (c = NilErr) <=> (e = NilErr)
  /\ IsNotSupported(Pm, c) <=> IsNotSupported(Types, e)
  /\ IsNotAvailable(Pm, c) <=> IsNotAvailable(Types, e)
  /\ IsExternalFailure(Pm, c) <=> IsExternalFailure(Types, e)
KeepsFields(e, c) ==
  /\ As(e, Types, "NotSupportedError") =>
       LET x == Head(AsTarget(e, Types, "NotSupportedError")) IN
       /\ As(c, Pm, "NotSupportedError")
       /\ LET y == Head(AsTarget(c, Pm, "NotSupportedError")) IN
          /\ y.Operation = x.Operation
          /\ y.Backend = x.Backend
          /\ y.Reason = x.Reason
  /\ As(e, Types, "NotAvailableError") =>
       LET x == Head(AsTarget(e, Types, "NotAvailableError")) IN
       /\ As(c, Pm, "NotAvailableError")
       /\ LET y == Head(AsTarget(c, Pm, "NotAvailableError")) IN
          /\ y.Backend = x.Backend
          /\ y.Reason = x.Reason
  /\ As(e, Types, "ExternalFailureError") =>
       LET x == AsTarget(e, Types, "ExternalFailureError") IN
       /\ As(c, Pm, "ExternalFailureError")
       /\ LET y == AsTarget(c, Pm, "ExternalFailureError") IN
          /\ Head(y).Operation = Head(x).Operation
          /\ Head(y).Backend = Head(x).Backend
          /\ Head(y).Stdout = Head(x).Stdout
          /\ Head(y).Stderr = Head(x).Stderr
          /\ Head(y).Payload = Head(x).Payload
          /\ Tail(y) = Tail(x)
OfNoKnownKind(e) ==
  /\ e # NilErr
  /\ ~IsNotSupported(Types, e)
  /\ ~IsNotAvailable(Types, e)
  /\ ~IsExternalFailure(Types, e)

\* C26: convertError keeps the kind of an error. The converted error is nil
\* exactly when the internal one is; each of IsNotSupported, IsNotAvailable and
\* IsExternalFailure of package pm holds of the converted error exactly when the
\* predicate of internal/types holds of the internal one; Operation, Backend,
\* Reason, Stdout, Stderr, Payload and the underlying error are carried over; an
\* error of no known kind comes back unchanged. The same holds of the error the
\* adapter hands out for the error of a backend operation.
C26_ConvertErrorKeepsKind ==
  /\ last.op = "convertError" =>
       /\ KeepsKind(last.err, last.result)
       /\ KeepsFields(last.err, last.result)
       /\ OfNoKnownKind(last.err) => last.result = last.err
  /\ (CalledOperation \/ last.op = "Available") =>
       /\ KeepsKind(last.err, last.public)
       /\ KeepsFields(last.err, last.public)
C26_Witness ==
  /\ last.op = "convertError"
  /\ last.kind = "ExternalFailureError(Err)"
  /\ last.layers = 1
  /\ IsExternalFailure(Pm, last.result)
  /\ Head(last.result).Stdout = <<"o", "u", "t">>
  /\ Head(last.result).Payload = "exit_code"
  /\ Tail(last.result) = Generic

\* the parent recorded for the one entity of that level born with identifier id
ParentBorn(level, id) ==
  {born[k].parent : k \in {j \in DOMAIN born : born[j].level = level /\ born[j].id = id}}

\* C27: hierarchy consistency of messages. For every sequence of helper calls,
\* every message delivered with a non-empty TaskID and a non-empty ActionID names
\* a Task whose own ActionID is the ActionID of the message, and every message
\* delivered with a non-empty StepID and a non-empty TaskID names a Step whose
\* own TaskID is the TaskID of the message.
C27_MessageHierarchy ==
  \A i \in EventIdx :
    events[i].method = "OnMessage" =>
      LET msg == events[i].arg IN
      /\ msg.TaskID # NoID /\ msg.ActionID # NoID =>
           ParentBorn("task", msg.TaskID) = {msg.ActionID}
      /\ msg.StepID # NoID /\ msg.TaskID # NoID =>
           ParentBorn("step", msg.StepID) = {msg.TaskID}

EndOf(L) == CASE L = "action" -> "EndAction"
              [] L = "task" -> "EndTask"
              [] L = "step" -> "EndStep"
CurrentAt(hs, L) == CASE L = "action" -> hs.currentAction
                      [] L = "task" -> hs.currentTask
                      [] L = "step" -> hs.currentStep
\* delivery k dropped the entity of level L its helper held: a Begin at that
\* level replaced it, or an End at that or an enclosing level cleared it
Drops(k, L) ==
  /\ IsEntity(events[k])
  /\ \/ IsBeginEvent(events[k]) /\ LevelOf(events[k]) = L
     \/ IsEndEvent(events[k]) /\ Depth(LevelOf(events[k])) <= Depth(L)
\* every end event is the first delivery after the begin event of its entity
\* that drops the entity, and it is made by the End of the entity's own level
EndedWhileCurrent ==
  \A j \in EventIdx :
    IsEndEvent(events[j]) =>
      /\ events[j].via = EndOf(LevelOf(events[j]))
      /\ \E i \in 1..(j - 1) :
           /\ IsBeginEvent(events[i])
           /\ events[i].method = events[j].method
           /\ events[i].arg.ID = events[j].arg.ID
           /\ events[i].from = events[j].from
           /\ \A k \in (i + 1)..(j - 1) :
                events[k].from = events[j].from => ~Drops(k, LevelOf(events[j]))
\* a call delivers at most one event, and an end event only for the entity the
\* helper holds at the level of the End that is called
OneEndPerCall ==
  /\ Len(events') <= Len(events) + 1
  /\ Len(events') = Len(events) + 1 =>
       LET e == events'[Len(events')] IN
       IsEndEvent(e) =>
         /\ e.via = EndOf(LevelOf(e))
         /\ ~CurrentAt(helpers[e.from], LevelOf(e)).isNil
         /\ e.arg.ID = CurrentID(CurrentAt(helpers[e.from], LevelOf(e)))
         /\ CurrentAt(helpers'[e.from], LevelOf(e)).isNil

\* C28: an entity the helper drops without its own End call never receives an
\* end event. A Task or Step cleared by the cascade of EndAction/EndTask, and an
\* Action, Task or Step replaced by another Begin at its level, is seen by the
\* reporter through its begin event only; each End* call delivers at most one
\* event, for the entity current at exactly that level.
C28_DroppedNeverEnded == [][OneEndPerCall /\ EndedWhileCurrent']_vars

\* a Task was cleared by the cascade of EndAction, EndTask was called after it,
\* and the reporter has the begin event of the Task only
C28_Witness ==
  \E h \in HelperIds : \E x \in hist[h].paired \ hist[h].pairedClean :
    /\ \E i \in EventIdx : DeliveriesOf(x) = {i} /\ events[i].method = "OnTask"
                           /\ IsBeginEvent(events[i])
    /\ helpers[h].currentTask.isNil

\* Supports says what the entry GetCapability returns says
Agree(caps, op) ==
  LET c == GetCapability(caps, op) IN
  Supports(caps, op) <=> (~c.isNil /\ c.val.Supported)
\* the entries of the list for that operation all carry the same Supported
OfOneMind(caps, op) ==
  \A i, j \in DOMAIN caps :
    caps[i].Operation = op /\ caps[j].Operation = op => caps[i].Supported = caps[j].Supported

HeldOnlyDuringDispatch ==
  \A g \in Goroutines :
    (mu = g) <=> (threads[g].pc \in {"dispatch", "inside", "unlock", "unwind"})
\* while a call is under way some goroutine can take a step
NoDeadlock ==
  (\E g \in Goroutines : threads[g].pc \notin {"idle", "panicked"}) =>
    \E g \in Goroutines :
      \/ threads[g].pc = "lock" /\ mu = Free
      \/ threads[g].pc \in {"dispatch", "inside", "unlock", "unwind"}

\* C30: every call on a reporter made by MakeThreadSafe comes to its end (it
\* returns, or the panic of the inner reporter leaves it), provided the inner
\* reporter's methods end and do not call the wrapper: the mutex is held only
\* during one dispatch and released on every way out, a panic of the inner
\* reporter included, so under fair scheduling all concurrent callers complete
\* and no deadlock is reachable.
C30_EveryCallReturns ==
  /\ [](HeldOnlyDuringDispatch /\ NoDeadlock)
  /\ \A g \in 1..MaxCallers :
       (threads[g].pc = "lock") ~> (threads[g].pc \in {"idle", "panicked"})

\* the inner reporter has panicked under one goroutine and another goroutine
\* has since got the mutex and returned from all its calls
C30_Witness ==
  \E g, k \in Goroutines :
    /\ threads[g].pc = "panicked"
    /\ threads[k].pc = "idle" /\ threads[k].returned >= 2
    /\ mu = Free

====
